---- MODULE Spec2Model ----
(***************************************************************************)
(* Replay of multixact WAL records into the two SLRU areas                 *)
(* (pg_multixact/offsets and pg_multixact/members), modelled from the      *)
(* front-end copy of multixact.c.                                          *)
(*                                                                         *)
(* MultiXactId, MultiXactOffset and TransactionId are uint32.  TLC's       *)
(* integers stop at 2^31-1, so a uint32 is kept as the pair <<hi, lo>> of  *)
(* its 16-bit halves and every operation on it is done modulo 2^32.        *)
(***************************************************************************)
EXTENDS Integers, Sequences, FiniteSets, TLC

\* ------------------------------------------------------------------ uint32
Half == 2^16

U32(n) == <<n \div Half, n % Half>>

Zero32 == <<0, 0>>

MaxU32 == <<Half - 1, Half - 1>>

Add32(a, b) ==
  LET lo == a[2] + b[2]
      hi == a[1] + b[1] + (lo \div Half)
  IN  <<hi % Half, lo % Half>>

Sub32(a, b) ==
  LET lo == a[2] - b[2]
      borrow == IF lo < 0 THEN 1 ELSE 0
      hi == a[1] - b[1] - borrow
  IN  <<(hi + Half) % Half, (lo + Half) % Half>>

\* a + n for a small non-negative C int n
AddInt32(a, n) == Add32(a, U32(n))

\* unsigned comparison
Lt32(a, b) == a[1] < b[1] \/ (a[1] = b[1] /\ a[2] < b[2])

Ge32(a, b) == ~Lt32(a, b)

\* sign of the word read as int32
Neg32(a) == a[1] >= Half \div 2

\* unsigned division and remainder by a divisor below 2^15
Div32(a, d) ==
  LET t == (a[1] % d) * Half + a[2]
  IN  <<a[1] \div d, t \div d>>

Mod32(a, d) == ((a[1] % d) * Half + a[2]) % d

\* the value of a word that fits a C int
ToInt(a) == a[1] * Half + a[2]

RECURSIVE And16(_, _)
And16(a, b) ==
  IF a = 0 \/ b = 0 THEN 0
  ELSE (a % 2) * (b % 2) + 2 * And16(a \div 2, b \div 2)

RECURSIVE Or16(_, _)
Or16(a, b) ==
  IF a = 0 THEN b
  ELSE IF b = 0 THEN a
  ELSE (IF a % 2 = 1 \/ b % 2 = 1 THEN 1 ELSE 0) + 2 * Or16(a \div 2, b \div 2)

And32(a, b) == <<And16(a[1], b[1]), And16(a[2], b[2])>>

Or32(a, b) == <<Or16(a[1], b[1]), Or16(a[2], b[2])>>

Not32(a) == <<Half - 1 - a[1], Half - 1 - a[2]>>

\* a << k, bits shifted past bit 31 are dropped
RECURSIVE Shl32(_, _)
Shl32(a, k) == IF k = 0 THEN a ELSE Shl32(Add32(a, a), k - 1)

\* a >> k (logical)
RECURSIVE Shr32(_, _)
Shr32(a, k) == IF k = 0 THEN a ELSE Shr32(Div32(a, 2), k - 1)

\* ------------------------------------------------------------------ layout
BLCKSZ == 8192

SizeofMultiXactOffset == 4

SizeofTransactionId == 4

MULTIXACT_OFFSETS_PER_PAGE == BLCKSZ \div SizeofMultiXactOffset

MultiXactIdToOffsetPage(xid) == ToInt(Div32(xid, MULTIXACT_OFFSETS_PER_PAGE))

\* the remainder taken by one less than the entries of a page
MultiXactIdToOffsetEntry_OneLess(xid) == Mod32(xid, MULTIXACT_OFFSETS_PER_PAGE - 1)

MultiXactIdToOffsetEntry(xid) == Mod32(xid, MULTIXACT_OFFSETS_PER_PAGE)

MXACT_MEMBER_BITS_PER_XACT == 8

MXACT_MEMBER_FLAGS_PER_BYTE == 1

MXACT_MEMBER_XACT_BITMASK == U32(2^MXACT_MEMBER_BITS_PER_XACT - 1)

MULTIXACT_FLAGBYTES_PER_GROUP == 4

MULTIXACT_MEMBERS_PER_MEMBERGROUP ==
  MULTIXACT_FLAGBYTES_PER_GROUP * MXACT_MEMBER_FLAGS_PER_BYTE

MULTIXACT_MEMBERGROUP_SIZE ==
  SizeofTransactionId * MULTIXACT_MEMBERS_PER_MEMBERGROUP
    + MULTIXACT_FLAGBYTES_PER_GROUP

MULTIXACT_MEMBERGROUPS_PER_PAGE == BLCKSZ \div MULTIXACT_MEMBERGROUP_SIZE

MULTIXACT_MEMBERS_PER_PAGE ==
  MULTIXACT_MEMBERGROUPS_PER_PAGE * MULTIXACT_MEMBERS_PER_MEMBERGROUP

MAX_MEMBERS_IN_LAST_MEMBERS_PAGE ==
  Mod32(MaxU32, MULTIXACT_MEMBERS_PER_PAGE) + 1

MXOffsetToMemberPage(xid) == ToInt(Div32(xid, MULTIXACT_MEMBERS_PER_PAGE))

MXOffsetToFlagsOffset(xid) ==
  Mod32(Div32(xid, MULTIXACT_MEMBERS_PER_MEMBERGROUP),
        MULTIXACT_MEMBERGROUPS_PER_PAGE) * MULTIXACT_MEMBERGROUP_SIZE

MXOffsetToFlagsBitShift(xid) ==
  Mod32(xid, MULTIXACT_MEMBERS_PER_MEMBERGROUP) * MXACT_MEMBER_BITS_PER_XACT

\* the flag bytes of the group not skipped
MXOffsetToMemberOffset_NoFlagBytes(xid) ==
  MXOffsetToFlagsOffset(xid)
    + Mod32(xid, MULTIXACT_MEMBERS_PER_MEMBERGROUP) * SizeofTransactionId

MXOffsetToMemberOffset(xid) ==
  MXOffsetToFlagsOffset(xid) + MULTIXACT_FLAGBYTES_PER_GROUP
    + Mod32(xid, MULTIXACT_MEMBERS_PER_MEMBERGROUP) * SizeofTransactionId

MaxMultiXactOffset == MaxU32

MULTIXACT_MEMBER_SAFE_THRESHOLD == Div32(MaxMultiXactOffset, 2)

\* a quarter of the offset space instead of three quarters
MULTIXACT_MEMBER_DANGER_THRESHOLD_Quarter == Div32(MaxMultiXactOffset, 4)

MULTIXACT_MEMBER_DANGER_THRESHOLD ==
  Sub32(MaxMultiXactOffset, Div32(MaxMultiXactOffset, 4))

\* ------------------------------------------------------------- comparisons
\* the two ids compared as plain unsigned numbers
MultiXactIdPrecedes_Plain(multi1, multi2) == Lt32(multi1, multi2)

MultiXactIdPrecedes(multi1, multi2) == Neg32(Sub32(multi1, multi2))

\* the plain unsigned <=
MultiXactIdPrecedesOrEquals_Plain(multi1, multi2) == ~Lt32(multi2, multi1)

MultiXactIdPrecedesOrEquals(multi1, multi2) ==
  LET diff == Sub32(multi1, multi2) IN Neg32(diff) \/ diff = Zero32

\* the two offsets compared as plain unsigned numbers
MultiXactOffsetPrecedes_Plain(offset1, offset2) == Lt32(offset1, offset2)

MultiXactOffsetPrecedes(offset1, offset2) == Neg32(Sub32(offset1, offset2))

FirstNormalTransactionId == 3

TransactionIdIsNormal(xid) == Ge32(xid, U32(FirstNormalTransactionId))

\* the modulo-2^32 comparison applied to permanent ids as well
TransactionIdPrecedes_Circular(id1, id2) == Neg32(Sub32(id1, id2))

TransactionIdPrecedes(id1, id2) ==
  IF ~TransactionIdIsNormal(id1) \/ ~TransactionIdIsNormal(id2)
  THEN Lt32(id1, id2)
  ELSE Neg32(Sub32(id1, id2))

TransactionIdFollowsOrEquals(id1, id2) ==
  IF ~TransactionIdIsNormal(id1) \/ ~TransactionIdIsNormal(id2)
  THEN Ge32(id1, id2)
  ELSE ~Neg32(Sub32(id1, id2))

\* TransactionIdAdvance(dest): dest++, skipping the special ids after a wrap
TransactionIdAdvance(dest) ==
  LET next == AddInt32(dest, 1)
  IN  IF Lt32(next, U32(FirstNormalTransactionId))
      THEN U32(FirstNormalTransactionId)
      ELSE next

\* -------------------------------------------------------------------- SLRU
\* A page buffer is the function from the byte offset of each non-zero
\* 4-byte word to that word; words not in its domain are zero.
ZeroedPage == [o \in {} |-> Zero32]

PeekWord(buf, o) == IF o \in DOMAIN buf THEN buf[o] ELSE Zero32

PokeWord(buf, o, v) ==
  IF v = Zero32
  THEN [k \in DOMAIN buf \ {o} |-> buf[k]]
  ELSE [k \in DOMAIN buf \cup {o} |-> IF k = o THEN v ELSE buf[k]]

\* Number of page slots of the two areas (NUM_MXACTOFFSET_BUFFERS and
\* NUM_MXACTMEMBER_BUFFERS of SimpleLruInit); kept small so that slot
\* replacement happens within short runs.
NumOffsetSlots == 1

NumMemberSlots == 2

\* SimpleLruInit: every slot empty; dir is the content of the area's
\* directory, a function from the page numbers present on disk to pages.
SimpleLruInit(nslots, dir) ==
  [page_number |-> [i \in 1..nslots |-> 0],
   page_status |-> [i \in 1..nslots |-> "EMPTY"],
   page_dirty  |-> [i \in 1..nslots |-> FALSE],
   page_buffer |-> [i \in 1..nslots |-> ZeroedPage],
   lru         |-> <<>>,
   dir         |-> dir]

NumSlots(ctl) == Cardinality(DOMAIN ctl.page_status)

MinOf(S) == CHOOSE m \in S : \A k \in S : m <= k

SeqWithout(seq, e) == SelectSeq(seq, LAMBDA y : y # e)

SlruRecentlyUsed(ctl, slotno) ==
  [ctl EXCEPT !.lru = Append(SeqWithout(ctl.lru, slotno), slotno)]

ResidentSlots(ctl, pageno) ==
  {i \in DOMAIN ctl.page_status :
     ctl.page_status[i] = "VALID" /\ ctl.page_number[i] = pageno}

\* write the slot's page to its file and clear the dirty bit
SlruInternalWritePage(ctl, slotno) ==
  IF ctl.page_status[slotno] = "VALID" /\ ctl.page_dirty[slotno]
  THEN [ctl EXCEPT
          !.dir = [p \in DOMAIN ctl.dir \cup {ctl.page_number[slotno]} |->
                     IF p = ctl.page_number[slotno]
                     THEN ctl.page_buffer[slotno]
                     ELSE ctl.dir[p]],
          !.page_dirty[slotno] = FALSE]
  ELSE ctl

SimpleLruWritePage(ctl, slotno) == SlruInternalWritePage(ctl, slotno)

\* the slot to hold pageno: the slot that holds it already, else an empty
\* slot, else the least recently used clean slot, else the least recently
\* used slot after writing it out
SlruSelectLRUPage(ctl, pageno) ==
  LET res   == ResidentSlots(ctl, pageno)
      empty == {i \in DOMAIN ctl.page_status : ctl.page_status[i] = "EMPTY"}
      clean == SelectSeq(ctl.lru, LAMBDA i : ~ctl.page_dirty[i])
  IN  IF res # {} THEN [ctl |-> ctl, slotno |-> MinOf(res)]
      ELSE IF empty # {} THEN [ctl |-> ctl, slotno |-> MinOf(empty)]
      ELSE IF clean # <<>> THEN [ctl |-> ctl, slotno |-> Head(clean)]
      ELSE [ctl |-> SlruInternalWritePage(ctl, Head(ctl.lru)),
            slotno |-> Head(ctl.lru)]

SimpleLruZeroPage(ctl, pageno) ==
  LET sel == SlruSelectLRUPage(ctl, pageno)
      c   == [sel.ctl EXCEPT !.page_number[sel.slotno] = pageno,
                             !.page_status[sel.slotno] = "VALID",
                             !.page_dirty[sel.slotno]  = TRUE,
                             !.page_buffer[sel.slotno] = ZeroedPage]
  IN  [ctl |-> SlruRecentlyUsed(c, sel.slotno), slotno |-> sel.slotno]

\* ok = FALSE: the page could not be read (the caller's process ends)
SimpleLruReadPage(ctl, pageno) ==
  LET res == ResidentSlots(ctl, pageno)
      sel == SlruSelectLRUPage(ctl, pageno)
  IN  IF res # {}
      THEN [ctl |-> SlruRecentlyUsed(ctl, MinOf(res)), slotno |-> MinOf(res),
            ok |-> TRUE]
      ELSE IF pageno \notin DOMAIN sel.ctl.dir
      THEN [ctl |-> [sel.ctl EXCEPT
                       !.page_status[sel.slotno] = "EMPTY",
                       !.page_dirty[sel.slotno]  = FALSE,
                       !.page_buffer[sel.slotno] = ZeroedPage,
                       !.lru = SeqWithout(sel.ctl.lru, sel.slotno)],
            slotno |-> sel.slotno, ok |-> FALSE]
      ELSE [ctl |-> SlruRecentlyUsed(
                      [sel.ctl EXCEPT
                         !.page_number[sel.slotno] = pageno,
                         !.page_status[sel.slotno] = "VALID",
                         !.page_dirty[sel.slotno]  = FALSE,
                         !.page_buffer[sel.slotno] = sel.ctl.dir[pageno]],
                      sel.slotno),
            slotno |-> sel.slotno, ok |-> TRUE]

RECURSIVE FlushFrom(_, _)
FlushFrom(ctl, slotno) ==
  IF slotno > NumSlots(ctl) THEN ctl
  ELSE FlushFrom(SlruInternalWritePage(ctl, slotno), slotno + 1)

SimpleLruFlush(ctl) == FlushFrom(ctl, 1)

\* ------------------------------------------------------- the process state
\* The operations below take and return the state of the replaying process
\* as one record s:
\*   s.off, s.mem   MultiXactOffsetCtl and MultiXactMemberCtl
\*   s.nextMXact, s.nextOffset   the fields of *MultiXactState
\*   s.nextXid      ShmemVariableCache_nextXid
\*   s.wal          the records this process handed to XLogInsert
\*   s.asserts      whether the build checks Assert()
\*   s.traps        whether an access through a null pointer traps
\*   s.pc           "running", or how the process ended:
\*                  "exit" (exit(1)), "ioerror" (an SLRU read failed),
\*                  "abort" (a failed Assert), "segv"
MultiXactStatusUpdate == 5

Running(s) == s.pc = "running"

Die(s, how) == [s EXCEPT !.pc = how]

\* page_buffer[slotno] + o, written and read as one 4-byte word
SlotPoke(ctl, slotno, o, v) ==
  [ctl EXCEPT !.page_buffer[slotno] = PokeWord(@, o, v)]

SlotPeek(ctl, slotno, o) == PeekWord(ctl.page_buffer[slotno], o)

SlotDirty(ctl, slotno) == [ctl EXCEPT !.page_dirty[slotno] = TRUE]

updateMinMulti(s, minMulti) == Die(s, "exit")

updateMinMultiOffset(s, off) == Die(s, "exit")

\* MultiXactState is a static pointer that nothing in the file assigns, so
\* the reads of MultiXactState->nextMXact and ->nextOffset go through a
\* null pointer: either the access traps (s.traps) or it yields the words
\* found there, which the model keeps in s.nextMXact and s.nextOffset.
MultiXactAdvanceNextMXact(s, minMulti, minMultiOffset) ==
  IF s.traps THEN Die(s, "segv")
  ELSE LET s1 == IF MultiXactIdPrecedes(s.nextMXact, minMulti)
                 THEN updateMinMulti(s, minMulti)
                 ELSE s
       IN  IF ~Running(s1) THEN s1
           ELSE IF MultiXactOffsetPrecedes(s1.nextOffset, minMultiOffset)
           THEN updateMinMultiOffset(s1, minMultiOffset)
           ELSE s1

\* ------------------------------------------------------------ WAL records
ZeroPageRec(info, pageno) ==
  [info |-> info, xl_xid |-> Zero32, pageno |-> pageno,
   mid |-> Zero32, moff |-> Zero32, members |-> <<>>]

CreateRec(xl_xid, mid, moff, members) ==
  [info |-> "CREATE_ID", xl_xid |-> xl_xid, pageno |-> 0,
   mid |-> mid, moff |-> moff, members |-> members]

WriteMZeroPageXlogRec(s, pageno, info) ==
  [s EXCEPT !.wal = Append(@, ZeroPageRec(info, pageno))]

\* both return the new state and the slot number
ZeroMultiXactOffsetPage(s, pageno, writeXlog) ==
  LET z  == SimpleLruZeroPage(s.off, pageno)
      s1 == [s EXCEPT !.off = z.ctl]
  IN  [s |-> IF writeXlog
             THEN WriteMZeroPageXlogRec(s1, pageno, "ZERO_OFF_PAGE")
             ELSE s1,
       slotno |-> z.slotno]

\* the record written whatever writeXlog says
ZeroMultiXactMemberPage_AlwaysLog(s, pageno, writeXlog) ==
  LET z  == SimpleLruZeroPage(s.mem, pageno)
      s1 == [s EXCEPT !.mem = z.ctl]
  IN  [s |-> WriteMZeroPageXlogRec(s1, pageno, "ZERO_MEM_PAGE"),
       slotno |-> z.slotno]

ZeroMultiXactMemberPage(s, pageno, writeXlog) ==
  LET z  == SimpleLruZeroPage(s.mem, pageno)
      s1 == [s EXCEPT !.mem = z.ctl]
  IN  [s |-> IF writeXlog
             THEN WriteMZeroPageXlogRec(s1, pageno, "ZERO_MEM_PAGE")
             ELSE s1,
       slotno |-> z.slotno]

\* the status added to the flags word without clearing the old field
SetStatusBits_Add(flagsval, status, bshift) ==
  Add32(flagsval, Shl32(U32(status), bshift))

\* the status or-ed into the flags word without clearing the old field
SetStatusBits_NoClear(flagsval, status, bshift) ==
  Or32(flagsval, Shl32(U32(status), bshift))

\* flagsval &= ~(((1 << BITS) - 1) << bshift); flagsval |= status << bshift
SetStatusBits(flagsval, status, bshift) ==
  Or32(And32(flagsval, Not32(Shl32(MXACT_MEMBER_XACT_BITMASK, bshift))),
       Shl32(U32(status), bshift))

\* the for loop of RecordNewMultiXact from iteration i on
RECURSIVE RecordMembers(_, _, _, _, _, _)
RecordMembers(s, offset, members, i, prev_pageno, slotno) ==
  IF i > Len(members) THEN s
  ELSE IF s.asserts /\ members[i].status > MultiXactStatusUpdate
  THEN Die(s, "abort")
  ELSE
    LET pageno    == MXOffsetToMemberPage(offset)
        memberoff == MXOffsetToMemberOffset(offset)
        flagsoff  == MXOffsetToFlagsOffset(offset)
        bshift    == MXOffsetToFlagsBitShift(offset)
        rd == IF pageno # prev_pageno
              THEN SimpleLruReadPage(s.mem, pageno)
              ELSE [ctl |-> s.mem, slotno |-> slotno, ok |-> TRUE]
        c1 == SlotPoke(rd.ctl, rd.slotno, memberoff, members[i].xid)
        flagsval == SlotPeek(c1, rd.slotno, flagsoff)
        c2 == SlotPoke(c1, rd.slotno, flagsoff,
                       SetStatusBits(flagsval, members[i].status, bshift))
        c3 == SlotDirty(c2, rd.slotno)
    IN  IF ~rd.ok THEN Die([s EXCEPT !.mem = rd.ctl], "ioerror")
        ELSE RecordMembers([s EXCEPT !.mem = c3], AddInt32(offset, 1),
                           members, i + 1, pageno, rd.slotno)

\* the offsets page written to its file before the members are recorded
RecordNewMultiXact_WriteThrough(s, multi, offset, members) ==
  LET pageno  == MultiXactIdToOffsetPage(multi)
      entryno == MultiXactIdToOffsetEntry(multi)
      rd == SimpleLruReadPage(s.off, pageno)
      c1 == SlotPoke(rd.ctl, rd.slotno, entryno * SizeofMultiXactOffset,
                     offset)
      c2 == SimpleLruWritePage(SlotDirty(c1, rd.slotno), rd.slotno)
  IN  IF ~rd.ok THEN Die([s EXCEPT !.off = rd.ctl], "ioerror")
      ELSE RecordMembers([s EXCEPT !.off = c2], offset, members, 1, -1, 0)

RecordNewMultiXact(s, multi, offset, members) ==
  LET pageno  == MultiXactIdToOffsetPage(multi)
      entryno == MultiXactIdToOffsetEntry(multi)
      rd == SimpleLruReadPage(s.off, pageno)
      c1 == SlotPoke(rd.ctl, rd.slotno, entryno * SizeofMultiXactOffset,
                     offset)
      c2 == SlotDirty(c1, rd.slotno)
  IN  IF ~rd.ok THEN Die([s EXCEPT !.off = rd.ctl], "ioerror")
      ELSE RecordMembers([s EXCEPT !.off = c2], offset, members, 1, -1, 0)

\* max_xid after the loop over members i..nmembers of the redo routine
RECURSIVE MaxXid(_, _, _)
MaxXid(max_xid, members, i) ==
  IF i > Len(members) THEN max_xid
  ELSE MaxXid(IF TransactionIdPrecedes(max_xid, members[i].xid)
              THEN members[i].xid ELSE max_xid,
              members, i + 1)

\* nextXid set from the record without comparing
AdvanceNextXid_Always(s, max_xid) ==
  [s EXCEPT !.nextXid = TransactionIdAdvance(max_xid)]

AdvanceNextXid(s, max_xid) ==
  IF TransactionIdFollowsOrEquals(max_xid, s.nextXid)
  THEN [s EXCEPT !.nextXid = TransactionIdAdvance(max_xid)]
  ELSE s

\* the zeroed page left dirty in its slot, not written
RedoZeroOffPage_NoWrite(s, pageno) ==
  ZeroMultiXactOffsetPage(s, pageno, FALSE).s

RedoZeroOffPage(s, pageno) ==
  LET z  == ZeroMultiXactOffsetPage(s, pageno, FALSE)
      s1 == [z.s EXCEPT !.off = SimpleLruWritePage(@, z.slotno)]
  IN  IF s1.asserts /\ s1.off.page_dirty[z.slotno]
      THEN Die(s1, "abort") ELSE s1

\* the page of the same number zeroed in the offsets area as well
RedoZeroMemPage_BothAreas(s, pageno) ==
  LET z  == ZeroMultiXactMemberPage(ZeroMultiXactOffsetPage(s, pageno, FALSE).s,
                                    pageno, FALSE)
  IN  [z.s EXCEPT !.mem = SimpleLruWritePage(@, z.slotno)]

RedoZeroMemPage(s, pageno) ==
  LET z  == ZeroMultiXactMemberPage(s, pageno, FALSE)
      s1 == [z.s EXCEPT !.mem = SimpleLruWritePage(@, z.slotno)]
  IN  IF s1.asserts /\ s1.mem.page_dirty[z.slotno]
      THEN Die(s1, "abort") ELSE s1

RedoCreateId(s, xlrec) ==
  LET s1 == RecordNewMultiXact(s, xlrec.mid, xlrec.moff, xlrec.members)
      s2 == MultiXactAdvanceNextMXact(s1, AddInt32(xlrec.mid, 1),
                                      AddInt32(xlrec.moff, Len(xlrec.members)))
  IN  IF ~Running(s1) THEN s1
      ELSE IF ~Running(s2) THEN s2
      ELSE AdvanceNextXid(s2, MaxXid(xlrec.xl_xid, xlrec.members, 1))

\* an unknown op code skipped instead of ending the process
multixact_redo_SkipUnknown(s, record) ==
  IF record.info = "ZERO_OFF_PAGE" THEN RedoZeroOffPage(s, record.pageno)
  ELSE IF record.info = "ZERO_MEM_PAGE" THEN RedoZeroMemPage(s, record.pageno)
  ELSE IF record.info = "CREATE_ID" THEN RedoCreateId(s, record)
  ELSE s

\* a WAL record carries info and xl_xid, then pageno for the two zero-page
\* kinds and mid, moff, members for CREATE_ID
multixact_redo(s, record) ==
  IF record.info = "ZERO_OFF_PAGE" THEN RedoZeroOffPage(s, record.pageno)
  ELSE IF record.info = "ZERO_MEM_PAGE" THEN RedoZeroMemPage(s, record.pageno)
  ELSE IF record.info = "CREATE_ID" THEN RedoCreateId(s, record)
  ELSE Die(s, "exit")

\* only the offsets area is flushed
shutdown_multixact_hack_OffsetsOnly(s) ==
  [s EXCEPT !.off = SimpleLruFlush(s.off)]

shutdown_multixact_hack(s) ==
  [s EXCEPT !.off = SimpleLruFlush(s.off), !.mem = SimpleLruFlush(s.mem)]

\* ---------------------------------------------------------------- state
VARIABLES
  MultiXactOffsetCtl,          \* the offsets area: slots and directory
  MultiXactMemberCtl,          \* the members area: slots and directory
  MultiXactState,              \* [nextMXact, nextOffset]
  ShmemVariableCache_nextXid,
  pc,                          \* "running" or how the process ended
  USE_ASSERT_CHECKING,         \* the build checks Assert()
  NullAccessTraps,             \* an access through a null pointer traps
  wal,                         \* records handed to XLogInsert, in order
  replayed,                    \* records multixact_redo was called with
  phase,                       \* "recovery" or "normal"
  created,                     \* groups made by the write path, in order
  writers,                     \* concurrent callers of the write path
  calc,                        \* a call of a function of the file: inputs, result
  mvdist                       \* mvdist.c: the build of the ndistinct items

vars == <<MultiXactOffsetCtl, MultiXactMemberCtl, MultiXactState,
          ShmemVariableCache_nextXid, pc, USE_ASSERT_CHECKING,
          NullAccessTraps, wal, replayed, phase, created, writers, calc, mvdist>>

\* no concurrent caller, no call, no build of ndistinct items
NoMvdist == <<>>

NoWriters == <<>>

NoCalc == <<>>

Proc ==
  [off |-> MultiXactOffsetCtl, mem |-> MultiXactMemberCtl,
   nextMXact |-> MultiXactState.nextMXact,
   nextOffset |-> MultiXactState.nextOffset,
   nextXid |-> ShmemVariableCache_nextXid,
   wal |-> wal, asserts |-> USE_ASSERT_CHECKING, traps |-> NullAccessTraps,
   pc |-> pc]

Install(s) ==
  /\ MultiXactOffsetCtl' = s.off
  /\ MultiXactMemberCtl' = s.mem
  /\ MultiXactState' = [nextMXact |-> s.nextMXact, nextOffset |-> s.nextOffset]
  /\ ShmemVariableCache_nextXid' = s.nextXid
  /\ wal' = s.wal
  /\ pc' = s.pc
  /\ USE_ASSERT_CHECKING' = s.asserts
  /\ NullAccessTraps' = s.traps

\* ----------------------------------------------------------------- inputs
MaxRecords == 2

MaxMembers == 3

Member(xid, status) == [xid |-> xid, status |-> status]

MemberPattern ==
  <<Member(U32(100), 1), Member(<<32768, 100>>, 5),
    Member(MaxU32, 0), Member(U32(7), 3)>>

Pattern(start, n) ==
  [i \in 1..n |-> MemberPattern[((start + i - 2) % Len(MemberPattern)) + 1]]

MemberLists == {Pattern(st, n) : st \in {1, 3}, n \in 0..MaxMembers}

\* group id, first member offset and originating xid of the records
\* replayed: inside one member group, across two groups of one page, across
\* the boundary of member pages 0 and 1 (first entry of offsets page 1), and
\* the last group id with a member run that wraps past the last offset
Shapes ==
  { [mid |-> U32(1), moff |-> U32(1), xl_xid |-> Zero32],
    [mid |-> U32(2), moff |-> U32(3), xl_xid |-> U32(200)],
    [mid |-> U32(MULTIXACT_OFFSETS_PER_PAGE),
     moff |-> U32(MULTIXACT_MEMBERS_PER_PAGE - 1),
     xl_xid |-> <<32768, 256>>],
    [mid |-> MaxU32, moff |-> Sub32(MaxU32, U32(1)), xl_xid |-> MaxU32] }

CreateRecs ==
  {CreateRec(sh.xl_xid, sh.mid, sh.moff, m) : sh \in Shapes, m \in MemberLists}

OffsetPages == {0, 1}

MemberPages == {0, 1}

ZeroOffRecs == {ZeroPageRec("ZERO_OFF_PAGE", p) : p \in OffsetPages}

ZeroMemRecs == {ZeroPageRec("ZERO_MEM_PAGE", p) : p \in MemberPages}

UnknownRecs == {ZeroPageRec("0x30", 0)}

\* the values found in *MultiXactState when replay starts
InitCounters ==
  { [nextMXact |-> U32(2), nextOffset |-> U32(4)],
    [nextMXact |-> U32(3000), nextOffset |-> U32(5000)],
    [nextMXact |-> Sub32(MaxU32, U32(15)), nextOffset |-> U32(5000)],
    [nextMXact |-> U32(3000), nextOffset |-> Sub32(MaxU32, U32(15))] }

\* Contents of the two directories when the process starts: nothing; the
\* pages the records touch, zeroed; those pages holding earlier groups.
AllOffsetPages ==
  {MultiXactIdToOffsetPage(sh.mid) : sh \in Shapes}

AllMemberPages ==
  {MXOffsetToMemberPage(AddInt32(sh.moff, k)) : sh \in Shapes, k \in 0..MaxMembers}

\* every offset entry and member slot the records can touch, as earlier
\* groups left it: a start offset in the entry, an xid in each member slot
\* and a status in each byte of the flags words
FilledOffsetDir ==
  [p \in AllOffsetPages |->
     [o \in {MultiXactIdToOffsetEntry(sh.mid) * SizeofMultiXactOffset :
               sh \in {q \in Shapes : MultiXactIdToOffsetPage(q.mid) = p}} |->
        U32(77)]]

TouchedOffsets ==
  {AddInt32(sh.moff, k) : sh \in Shapes, k \in 0..MaxMembers}

FilledMemberDir ==
  [p \in AllMemberPages |->
     LET on == {x \in TouchedOffsets : MXOffsetToMemberPage(x) = p}
         fl == {MXOffsetToFlagsOffset(x) : x \in on}
         xs == {f + MULTIXACT_FLAGBYTES_PER_GROUP + j * SizeofTransactionId :
                  f \in fl, j \in 0..MULTIXACT_MEMBERS_PER_MEMBERGROUP - 1}
     IN  [o \in fl \cup xs |-> IF o \in fl THEN <<1284, 770>> ELSE U32(41)]]

ZeroedOffsetDir == [p \in AllOffsetPages |-> ZeroedPage]

ZeroedMemberDir == [p \in AllMemberPages |-> ZeroedPage]

FilledDirs == [off |-> FilledOffsetDir, mem |-> FilledMemberDir]

InitDirs ==
  { [off |-> [p \in {} |-> ZeroedPage], mem |-> [p \in {} |-> ZeroedPage]],
    [off |-> ZeroedOffsetDir, mem |-> ZeroedMemberDir],
    FilledDirs }

\* ------------------------------------------------------------------ replay
\* init_multixact_hack, then the values replay starts from
Init ==
  /\ \E d \in InitDirs :
       /\ MultiXactOffsetCtl = SimpleLruInit(NumOffsetSlots, d.off)
       /\ MultiXactMemberCtl = SimpleLruInit(NumMemberSlots, d.mem)
  /\ MultiXactState \in InitCounters
  /\ ShmemVariableCache_nextXid = Zero32
  /\ pc = "running"
  /\ USE_ASSERT_CHECKING \in BOOLEAN
  /\ NullAccessTraps \in BOOLEAN
  /\ wal = <<>>
  /\ replayed = <<>>
  /\ phase = "recovery"
  /\ created = <<>>
  /\ writers = NoWriters
  /\ calc = NoCalc
  /\ mvdist = NoMvdist

\* multixact_redo called with the next record of the log
Redo(record) ==
  /\ phase = "recovery"
  /\ pc = "running"
  /\ Len(replayed) < MaxRecords
  /\ Install(multixact_redo(Proc, record))
  /\ replayed' = Append(replayed, record)
  /\ UNCHANGED <<phase, created, writers, calc, mvdist>>

RedoZeroOff == \E r \in ZeroOffRecs : Redo(r)

RedoZeroMem == \E r \in ZeroMemRecs : Redo(r)

RedoCreate == \E r \in CreateRecs : Redo(r)

RedoUnknown == \E r \in UnknownRecs : Redo(r)

Next == RedoZeroOff \/ RedoZeroMem \/ RedoCreate \/ RedoUnknown

Spec == Init /\ [][Next]_vars

\* ------------------------------------------------------- reading the areas
\* the page as a reader finds it: the slot's buffer if the page is in a
\* slot, else the page of the file
PageContent(ctl, pageno) ==
  LET res == ResidentSlots(ctl, pageno)
  IN  IF res # {} THEN ctl.page_buffer[MinOf(res)]
      ELSE IF pageno \in DOMAIN ctl.dir THEN ctl.dir[pageno]
      ELSE ZeroedPage

PagesOf(ctl) ==
  DOMAIN ctl.dir \cup
    {ctl.page_number[i] : i \in {j \in DOMAIN ctl.page_status :
                                   ctl.page_status[j] = "VALID"}}

Contents(ctl) == [p \in PagesOf(ctl) |-> PageContent(ctl, p)]

ReadOffsetEntry(ctl, multi) ==
  PeekWord(PageContent(ctl, MultiXactIdToOffsetPage(multi)),
           MultiXactIdToOffsetEntry(multi) * SizeofMultiXactOffset)

ReadMember(ctl, offset) ==
  LET page  == PageContent(ctl, MXOffsetToMemberPage(offset))
      flags == PeekWord(page, MXOffsetToFlagsOffset(offset))
  IN  [xid |-> PeekWord(page, MXOffsetToMemberOffset(offset)),
       status |-> ToInt(And32(Shr32(flags, MXOffsetToFlagsBitShift(offset)),
                              MXACT_MEMBER_XACT_BITMASK))]

\* ------------------------------------------------------------------ claims
LastRec == replayed[Len(replayed)]

\* the last record replayed was CREATE_ID and RecordNewMultiXact returned
Recorded ==
  /\ Len(replayed) > 0
  /\ LastRec.info = "CREATE_ID"
  /\ pc \notin {"ioerror", "abort"}

ValidStatuses(members) ==
  \A i \in 1..Len(members) : members[i].status <= MultiXactStatusUpdate

\* C1: replaying a CREATE_ID record a second time, right after it was
\* replayed, leaves every page of the offsets and members areas as the first
\* replay left it.
C1_RedoIdempotent ==
  [][(/\ Len(replayed) > 0
      /\ pc = "running"
      /\ LastRec.info = "CREATE_ID"
      /\ replayed' = Append(replayed, LastRec))
     => /\ Contents(MultiXactOffsetCtl') = Contents(MultiXactOffsetCtl)
        /\ Contents(MultiXactMemberCtl') = Contents(MultiXactMemberCtl)]_vars

C1_Witness ==
  /\ Len(replayed) = 2
  /\ replayed[1] = replayed[2]
  /\ replayed[1].info = "CREATE_ID"
  /\ Len(replayed[1].members) >= 2
  /\ pc = "running"

\* C2: once RecordNewMultiXact has returned for a group whose statuses are
\* all valid, the offset entry of the group holds its first member offset
\* and the member slots from that offset on hold the members, xid and
\* status, in order.
C2_RoundTrip ==
  (Recorded /\ ValidStatuses(LastRec.members))
  => /\ ReadOffsetEntry(MultiXactOffsetCtl, LastRec.mid) = LastRec.moff
     /\ \A i \in 1..Len(LastRec.members) :
          ReadMember(MultiXactMemberCtl, AddInt32(LastRec.moff, i - 1))
            = LastRec.members[i]

\* a run of members that crosses from one member page to the next, written
\* over slots that held other members
C2_Witness ==
  /\ Recorded
  /\ Len(LastRec.members) >= 2
  /\ MXOffsetToMemberPage(LastRec.moff) = 0
  /\ MXOffsetToMemberPage(AddInt32(LastRec.moff, Len(LastRec.members) - 1)) = 1
  /\ 0 \in DOMAIN MultiXactMemberCtl.dir
  /\ MultiXactMemberCtl.dir[0] # ZeroedPage

\* C8: after the replay of a zero-page record the page is all zeroes in its
\* slot and in the file, and the slot is clean, and replay goes on.
C8_ZeroPageDurable ==
  /\ (Len(replayed) > 0 /\ LastRec.info = "ZERO_OFF_PAGE")
     => /\ pc = "running"
        /\ \E i \in ResidentSlots(MultiXactOffsetCtl, LastRec.pageno) :
             /\ MultiXactOffsetCtl.page_buffer[i] = ZeroedPage
             /\ ~MultiXactOffsetCtl.page_dirty[i]
        /\ LastRec.pageno \in DOMAIN MultiXactOffsetCtl.dir
        /\ MultiXactOffsetCtl.dir[LastRec.pageno] = ZeroedPage
  /\ (Len(replayed) > 0 /\ LastRec.info = "ZERO_MEM_PAGE")
     => /\ pc = "running"
        /\ \E i \in ResidentSlots(MultiXactMemberCtl, LastRec.pageno) :
             /\ MultiXactMemberCtl.page_buffer[i] = ZeroedPage
             /\ ~MultiXactMemberCtl.page_dirty[i]
        /\ LastRec.pageno \in DOMAIN MultiXactMemberCtl.dir
        /\ MultiXactMemberCtl.dir[LastRec.pageno] = ZeroedPage

\* a page that a group was just recorded in, zeroed by the next record
C8_Witness ==
  /\ Len(replayed) = 2
  /\ replayed[1].info = "CREATE_ID"
  /\ replayed[2].info = "ZERO_OFF_PAGE"
  /\ replayed[2].pageno = MultiXactIdToOffsetPage(replayed[1].mid)
  /\ pc = "running"

KnownInfo == {"ZERO_OFF_PAGE", "ZERO_MEM_PAGE", "CREATE_ID"}

\* C9: a record of any other kind ends the process and changes no page, no
\* counter and not nextXid; once the process has ended nothing is replayed.
C9_UnknownIsFatal ==
  [][/\ pc = "running"
     /\ (Len(replayed') > Len(replayed)
         /\ replayed'[Len(replayed')].info \notin KnownInfo)
        => /\ pc' = "exit"
           /\ UNCHANGED <<MultiXactOffsetCtl, MultiXactMemberCtl,
                          MultiXactState, ShmemVariableCache_nextXid, wal>>]_vars

C9_Witness ==
  /\ Len(replayed) = 2
  /\ replayed[1].info = "CREATE_ID"
  /\ LastRec.info \notin KnownInfo
  /\ pc = "exit"

\* b lies after a on the 2^32 circle: (int32) (a - b) < 0
CircLater(b, a) ==
  LET d == Sub32(b, a)
  IN  d # Zero32 /\ (d[1] < Half \div 2 \/ d = <<Half \div 2, 0>>)

\* the arguments MultiXactAdvanceNextMXact was called with for LastRec
MinMulti(rec) == AddInt32(rec.mid, 1)

MinMultiOffset(rec) == AddInt32(rec.moff, Len(rec.members))

\* C3: the replay of a CREATE_ID record goes on and leaves nextMXact at
\* mid + 1 if it preceded that (else as it was), and nextOffset at
\* moff + nmembers if it preceded that (else as it was).
C3_CountersRaised ==
  [][(/\ Len(replayed') > Len(replayed)
      /\ replayed'[Len(replayed')].info = "CREATE_ID"
      /\ pc' \notin {"ioerror", "abort"})
     => LET rec == replayed'[Len(replayed')]
        IN  /\ pc' = "running"
            /\ MultiXactState'.nextMXact =
                 IF CircLater(MinMulti(rec), MultiXactState.nextMXact)
                 THEN MinMulti(rec) ELSE MultiXactState.nextMXact
            /\ MultiXactState'.nextOffset =
                 IF CircLater(MinMultiOffset(rec), MultiXactState.nextOffset)
                 THEN MinMultiOffset(rec) ELSE MultiXactState.nextOffset]_vars

\* C4: no step moves nextMXact or nextOffset to a value that lies before the
\* old one on the circle; a call of MultiXactAdvanceNextMXact with an
\* argument at or before the counter leaves the counter as it is, and
\* returns if that is so for both; a call with an argument after the counter
\* on the circle, smaller as a number or not, takes the raising branch, from
\* which the call does not return.
C4_CounterMonotone ==
  [][/\ ~CircLater(MultiXactState.nextMXact, MultiXactState'.nextMXact)
     /\ ~CircLater(MultiXactState.nextOffset, MultiXactState'.nextOffset)
     /\ (/\ Len(replayed') > Len(replayed)
         /\ replayed'[Len(replayed')].info = "CREATE_ID"
         /\ pc' \notin {"ioerror", "abort"})
        => LET rec   == replayed'[Len(replayed')]
               lateM == CircLater(MinMulti(rec), MultiXactState.nextMXact)
               lateO == CircLater(MinMultiOffset(rec), MultiXactState.nextOffset)
           IN  /\ ~lateM => MultiXactState'.nextMXact = MultiXactState.nextMXact
               /\ ~lateO => MultiXactState'.nextOffset = MultiXactState.nextOffset
               /\ (~lateM /\ ~lateO /\ ~NullAccessTraps) => pc' = "running"
               /\ (lateM \/ lateO) => pc' # "running"]_vars

\* the call was made with a group id that is smaller as a number than
\* nextMXact and after it on the circle, and with an offset at or before
\* nextOffset
C4_Witness ==
  /\ Recorded
  /\ ~NullAccessTraps
  /\ Lt32(MinMulti(LastRec), MultiXactState.nextMXact)
  /\ CircLater(MinMulti(LastRec), MultiXactState.nextMXact)
  /\ ~CircLater(MinMultiOffset(LastRec), MultiXactState.nextOffset)
  /\ pc = "exit"

\* the group of replayed[i] has been recorded in the pages
Created(i) ==
  /\ replayed[i].info = "CREATE_ID"
  /\ (i < Len(replayed) \/ pc \notin {"ioerror", "abort"})

\* C5: nextMXact is never 0 and lies after every group id recorded so far.
C5_NextMXactPastCreated ==
  /\ MultiXactState.nextMXact # Zero32
  /\ \A i \in 1..Len(replayed) :
       Created(i) => CircLater(MultiXactState.nextMXact, replayed[i].mid)

\* C6: after the replay of a CREATE_ID record nextXid lies, on the circle,
\* after the xid of the record and after the xid of each of its members.
C6_NextXidPastRecord ==
  Recorded
  => /\ CircLater(ShmemVariableCache_nextXid, LastRec.xl_xid)
     /\ \A i \in 1..Len(LastRec.members) :
          CircLater(ShmemVariableCache_nextXid, LastRec.members[i].xid)

\* the page of the file, as a set: empty if the file does not hold the page
DirPage(ctl, pageno) ==
  IF pageno \in DOMAIN ctl.dir THEN {ctl.dir[pageno]} ELSE {}

TouchedMemberPages(rec) ==
  {MXOffsetToMemberPage(AddInt32(rec.moff, k - 1)) : k \in 1..Len(rec.members)}

DirtyIn(ctl, pageno) ==
  \E i \in ResidentSlots(ctl, pageno) : ctl.page_dirty[i]

\* the pages of the file are as before, but for pages that were dirty in a
\* slot before and now hold in the file what that slot held
OnlyVictimsWritten(old, new) ==
  \A p \in DOMAIN old.dir \cup DOMAIN new.dir :
    DirPage(new, p) # DirPage(old, p)
    => \E i \in ResidentSlots(old, p) :
         old.page_dirty[i] /\ DirPage(new, p) = {old.page_buffer[i]}

\* C10 as claimed: when RecordNewMultiXact returns, the offsets page of the
\* group and the member pages of its members are dirty in their slots and
\* the files of both areas are what they were before the call.
C10_NoFileChange ==
  [][(/\ Len(replayed') > Len(replayed)
      /\ replayed'[Len(replayed')].info = "CREATE_ID"
      /\ pc' \notin {"ioerror", "abort"})
     => LET rec == replayed'[Len(replayed')]
        IN  /\ DirtyIn(MultiXactOffsetCtl', MultiXactIdToOffsetPage(rec.mid))
            /\ \A p \in TouchedMemberPages(rec) : DirtyIn(MultiXactMemberCtl', p)
            /\ MultiXactOffsetCtl'.dir = MultiXactOffsetCtl.dir
            /\ MultiXactMemberCtl'.dir = MultiXactMemberCtl.dir]_vars

\* C10, amended: when RecordNewMultiXact returns, the offsets page of the
\* group and the member pages of its members are dirty in their slots; a
\* page of a file differs from what it was before the call only if the page
\* was dirty in a slot before the call, and then the file holds what that
\* slot held before the call (the slot was taken for a page that was read).
C10_TouchedPagesNotWritten ==
  [][(/\ Len(replayed') > Len(replayed)
      /\ replayed'[Len(replayed')].info = "CREATE_ID"
      /\ pc' \notin {"ioerror", "abort"})
     => LET rec == replayed'[Len(replayed')]
        IN  /\ DirtyIn(MultiXactOffsetCtl', MultiXactIdToOffsetPage(rec.mid))
            /\ \A p \in TouchedMemberPages(rec) : DirtyIn(MultiXactMemberCtl', p)
            /\ OnlyVictimsWritten(MultiXactOffsetCtl, MultiXactOffsetCtl')
            /\ OnlyVictimsWritten(MultiXactMemberCtl, MultiXactMemberCtl')]_vars

\* the second group took the slot of the first group's offsets page, which
\* was written to the file with the first group's entry
C10_Witness ==
  /\ Recorded
  /\ Len(replayed) = 2
  /\ replayed[1].info = "CREATE_ID"
  /\ MultiXactIdToOffsetPage(replayed[1].mid) # MultiXactIdToOffsetPage(replayed[2].mid)
  /\ DirPage(MultiXactOffsetCtl, MultiXactIdToOffsetPage(replayed[1].mid))
       = {PageContent(MultiXactOffsetCtl, MultiXactIdToOffsetPage(replayed[1].mid))}
  /\ ReadOffsetEntry(MultiXactOffsetCtl, replayed[1].mid) = replayed[1].moff
  /\ DirtyIn(MultiXactOffsetCtl, MultiXactIdToOffsetPage(replayed[2].mid))

\* ------------------------------------------- write path, crash and replay
\* The run that makes the groups and logs them, a crash, and the replay of
\* the log from its start on the areas as they were when the log started.
MaxGroups == 2

\* the counters when the log starts: the first group of all, and a group
\* whose successor starts offsets page 1 and whose members reach member
\* page 1
StartCounters ==
  { [nextMXact |-> U32(1), nextOffset |-> U32(1)],
    [nextMXact |-> U32(MULTIXACT_OFFSETS_PER_PAGE - 1),
     nextOffset |-> U32(MULTIXACT_MEMBERS_PER_PAGE - 2)] }

\* page 0 of each area, zeroed, as it is when the log starts
BaseDirs == [off |-> [p \in {0} |-> ZeroedPage], mem |-> [p \in {0} |-> ZeroedPage]]

\* the xid of the transaction that makes the groups
WriterXid == U32(200)

\* a page of the offsets area is zeroed, and the zeroing logged, when the
\* area does not hold it yet
ExtendMultiXactOffset(s, multi) ==
  LET pageno == MultiXactIdToOffsetPage(multi)
  IN  IF pageno \in PagesOf(s.off) THEN s
      ELSE ZeroMultiXactOffsetPage(s, pageno, TRUE).s

RECURSIVE ExtendMultiXactMember(_, _, _)
\* the same for each member page that offset .. offset + nmembers - 1 reach
ExtendMultiXactMember(s, offset, nmembers) ==
  IF nmembers = 0 THEN s
  ELSE LET pageno == MXOffsetToMemberPage(offset)
           s1 == IF pageno \in PagesOf(s.mem) THEN s
                 ELSE ZeroMultiXactMemberPage(s, pageno, TRUE).s
       IN  ExtendMultiXactMember(s1, AddInt32(offset, 1), nmembers - 1)

\* the group as a reader finds it in the areas
ReadGroup(s, multi, nmembers) ==
  LET offset == ReadOffsetEntry(s.off, multi)
  IN  [mid |-> multi, moff |-> offset,
       members |-> [i \in 1..nmembers |->
                      ReadMember(s.mem, AddInt32(offset, i - 1))]]

\* counter allocation, write path and log append, as one unit
allocateGroup(s, members) ==
  LET multi  == s.nextMXact
      offset == s.nextOffset
      s1 == ExtendMultiXactOffset(s, multi)
      s2 == ExtendMultiXactMember(s1, offset, Len(members))
      s3 == RecordNewMultiXact(s2, multi, offset, members)
  IN  IF ~Running(s1) THEN s1
      ELSE IF ~Running(s2) THEN s2
      ELSE IF ~Running(s3) THEN s3
      ELSE [s3 EXCEPT
              !.wal = Append(@, CreateRec(WriterXid, multi, offset, members)),
              !.nextMXact = AddInt32(multi, 1),
              !.nextOffset = AddInt32(offset, Len(members))]

InitNormal ==
  /\ MultiXactOffsetCtl = SimpleLruInit(NumOffsetSlots, BaseDirs.off)
  /\ MultiXactMemberCtl = SimpleLruInit(NumMemberSlots, BaseDirs.mem)
  /\ MultiXactState \in StartCounters
  /\ ShmemVariableCache_nextXid = AddInt32(WriterXid, 1)
  /\ pc = "running"
  /\ USE_ASSERT_CHECKING \in BOOLEAN
  /\ NullAccessTraps \in BOOLEAN
  /\ wal = <<>>
  /\ replayed = <<>>
  /\ phase = "normal"
  /\ created = <<>>
  /\ writers = NoWriters
  /\ calc = NoCalc
  /\ mvdist = NoMvdist

AllocateGroup ==
  /\ phase = "normal"
  /\ pc = "running"
  /\ Len(created) < MaxGroups
  /\ \E members \in MemberLists :
       /\ Install(allocateGroup(Proc, members))
       /\ created' = Append(created,
                            ReadGroup([off |-> MultiXactOffsetCtl',
                                       mem |-> MultiXactMemberCtl'],
                                      MultiXactState.nextMXact, Len(members)))
  /\ UNCHANGED <<replayed, phase, writers, calc, mvdist>>

\* The process ends and a new one starts recovery: init_multixact_hack, the
\* areas as they were when the log started, and the counters whatever the
\* reads through MultiXactState find.
Crash ==
  /\ phase = "normal"
  /\ Len(created) > 0
  /\ phase' = "recovery"
  /\ MultiXactOffsetCtl' = SimpleLruInit(NumOffsetSlots, BaseDirs.off)
  /\ MultiXactMemberCtl' = SimpleLruInit(NumMemberSlots, BaseDirs.mem)
  /\ MultiXactState' \in InitCounters \cup StartCounters
  /\ ShmemVariableCache_nextXid' = Zero32
  /\ pc' = "running"
  /\ replayed' = <<>>
  /\ UNCHANGED <<USE_ASSERT_CHECKING, NullAccessTraps, wal, created, writers, calc, mvdist>>

\* multixact_redo called with the next record of the log, in log order
ReplayNext ==
  /\ phase = "recovery"
  /\ pc = "running"
  /\ Len(replayed) < Len(wal)
  /\ Install(multixact_redo(Proc, wal[Len(replayed) + 1]))
  /\ replayed' = Append(replayed, wal[Len(replayed) + 1])
  /\ UNCHANGED <<phase, created, writers, calc, mvdist>>

\* shutdown_multixact_hack, called by a process that has not ended
Shutdown ==
  /\ phase \in {"normal", "recovery"}
  /\ pc = "running"
  /\ Install(shutdown_multixact_hack(Proc))
  /\ phase' = "shutdown"
  /\ UNCHANGED <<replayed, created, writers, calc, mvdist>>

NextCrash == AllocateGroup \/ Crash \/ ReplayNext \/ Shutdown

SpecCrash == InitNormal /\ [][NextCrash]_vars

ReplayEnded ==
  /\ phase = "recovery"
  /\ (pc # "running" \/ Len(replayed) = Len(wal))

\* C7: when the replay of the log has ended, every group the write path made
\* is found in the areas with the start offset and the members it had in the
\* run that made it.
C7_ReplayReproduces ==
  ReplayEnded
  => \A i \in 1..Len(created) :
       ReadGroup(Proc, created[i].mid, Len(created[i].members)) = created[i]

\* the page is in the file of the area and is there what a reader finds
OnDisk(ctl, pageno) == DirPage(ctl, pageno) = {PageContent(ctl, pageno)}

\* offsets pages and member pages that RecordNewMultiXact or a page zeroing
\* modified for the records of a log
OffsetPagesOf(log) ==
  {MultiXactIdToOffsetPage(log[i].mid) :
     i \in {j \in 1..Len(log) : log[j].info = "CREATE_ID"}}
  \cup {log[i].pageno : i \in {j \in 1..Len(log) : log[j].info = "ZERO_OFF_PAGE"}}

MemberPagesOf(log) ==
  UNION {TouchedMemberPages(log[i]) :
           i \in {j \in 1..Len(log) : log[j].info = "CREATE_ID"}}
  \cup {log[i].pageno : i \in {j \in 1..Len(log) : log[j].info = "ZERO_MEM_PAGE"}}

NoDirtySlot(ctl) == \A i \in DOMAIN ctl.page_dirty : ~ctl.page_dirty[i]

\* the records whose pages the process modified: those it logged in normal
\* running, those it replayed in recovery
ModifiedBy == IF phase = "normal" THEN wal ELSE replayed

\* C11: when shutdown_multixact_hack returns no slot of either area is
\* dirty, and every page that an earlier RecordNewMultiXact or page zeroing
\* of the process modified is in the file of its area with the content a
\* reader finds for it in the cache, which is the content it had before.
C11_ShutdownFlushed ==
  [][phase' = "shutdown"
     => /\ NoDirtySlot(MultiXactOffsetCtl')
        /\ NoDirtySlot(MultiXactMemberCtl')
        /\ Contents(MultiXactOffsetCtl') = Contents(MultiXactOffsetCtl)
        /\ Contents(MultiXactMemberCtl') = Contents(MultiXactMemberCtl)
        /\ \A p \in PagesOf(MultiXactOffsetCtl') \cup OffsetPagesOf(ModifiedBy) :
             OnDisk(MultiXactOffsetCtl', p)
        /\ \A p \in PagesOf(MultiXactMemberCtl') \cup MemberPagesOf(ModifiedBy) :
             OnDisk(MultiXactMemberCtl', p)]_vars

\* shutdown after one group with members in two member pages was made: no
\* slot was taken from a page before, so it is the flush that wrote them
C11_Witness ==
  /\ phase = "shutdown"
  /\ replayed = <<>>
  /\ Len(created) = 1
  /\ Len(created[1].members) >= 2
  /\ Cardinality(MemberPagesOf(wal)) = 2
  /\ ReadGroup([off |-> SimpleLruInit(NumOffsetSlots, MultiXactOffsetCtl.dir),
                mem |-> SimpleLruInit(NumMemberSlots, MultiXactMemberCtl.dir)],
               created[1].mid, Len(created[1].members)) = created[1]

\* ------------------------------------------------------ concurrent writers
\* Callers of the write path running side by side.  Each takes the lock of
\* the counters, reads them, advances them and releases the lock; then runs
\* RecordNewMultiXact, whose statements take no lock: the steps below are
\* its accesses to the shared pages, one load or store of the flags word per
\* step.  writers.lock is the holder of the lock of the counters (0: free),
\* writers.w[k] the locals of caller k.
Writers == {1, 2}

\* the members of the groups the callers make
WriterMemberLists == {Pattern(1, 1), Pattern(1, 2), Pattern(4, 2)}

IdleWriter ==
  [pc |-> "idle", multi |-> Zero32, offset |-> Zero32, members |-> <<>>,
   i |-> 0, prev_pageno |-> -1, slotno |-> 0, flagsval |-> Zero32]

\* the lock of the counters is granted when no caller holds it
LockFree_Always(lock) == TRUE

LockFree(lock) == lock = 0

InitWriters ==
  /\ MultiXactOffsetCtl = SimpleLruInit(NumOffsetSlots, BaseDirs.off)
  /\ MultiXactMemberCtl = SimpleLruInit(NumMemberSlots, BaseDirs.mem)
  /\ MultiXactState \in {[nextMXact |-> U32(1), nextOffset |-> U32(1)],
                         [nextMXact |-> U32(9), nextOffset |-> U32(6)]}
  /\ ShmemVariableCache_nextXid = AddInt32(WriterXid, 1)
  /\ pc = "running"
  /\ USE_ASSERT_CHECKING \in BOOLEAN
  /\ NullAccessTraps = FALSE
  /\ wal = <<>>
  /\ replayed = <<>>
  /\ phase = "normal"
  /\ created = <<>>
  /\ writers = [lock |-> 0, w |-> [k \in Writers |-> IdleWriter]]
  /\ calc = NoCalc
  /\ mvdist = NoMvdist

Me(k) == writers.w[k]

\* the rest of the state, which a step of a caller leaves alone
WriterFrame ==
  UNCHANGED <<ShmemVariableCache_nextXid, USE_ASSERT_CHECKING,
              NullAccessTraps, wal, replayed, phase, created, calc, mvdist>>

\* counter allocation: take the lock
AcquireGenLock(k) ==
  /\ pc = "running"
  /\ Me(k).pc = "idle"
  /\ LockFree(writers.lock)
  /\ \E members \in WriterMemberLists :
       writers' = [writers EXCEPT !.lock = k, !.w[k].pc = "locked",
                                  !.w[k].members = members]
  /\ UNCHANGED <<MultiXactOffsetCtl, MultiXactMemberCtl, MultiXactState, pc>>
  /\ WriterFrame

\* read nextMXact and nextOffset
ReadCounters(k) ==
  /\ pc = "running"
  /\ Me(k).pc = "locked"
  /\ writers' = [writers EXCEPT !.w[k].pc = "read",
                                !.w[k].multi = MultiXactState.nextMXact,
                                !.w[k].offset = MultiXactState.nextOffset]
  /\ UNCHANGED <<MultiXactOffsetCtl, MultiXactMemberCtl, MultiXactState, pc>>
  /\ WriterFrame

\* advance both counters past what was read, release the lock
AdvanceCounters(k) ==
  /\ pc = "running"
  /\ Me(k).pc = "read"
  /\ MultiXactState' =
       [nextMXact |-> AddInt32(Me(k).multi, 1),
        nextOffset |-> AddInt32(Me(k).offset, Len(Me(k).members))]
  /\ writers' = [writers EXCEPT
                   !.lock = IF @ = k THEN 0 ELSE @,
                   !.w[k].pc = "offsets"]
  /\ UNCHANGED <<MultiXactOffsetCtl, MultiXactMemberCtl, pc>>
  /\ WriterFrame

\* the entry left as it was
StoreOffsetEntry_Skipped(ctl, slotno, entryno, offset) == ctl

\* *offptr = offset; page_dirty[slotno] = true
StoreOffsetEntry(ctl, slotno, entryno, offset) ==
  SlotDirty(SlotPoke(ctl, slotno, entryno * SizeofMultiXactOffset, offset),
            slotno)

\* RecordNewMultiXact up to the loop: the offsets entry
WriteOffsetEntry(k) ==
  /\ pc = "running"
  /\ Me(k).pc = "offsets"
  /\ LET pageno  == MultiXactIdToOffsetPage(Me(k).multi)
         entryno == MultiXactIdToOffsetEntry(Me(k).multi)
         rd == SimpleLruReadPage(MultiXactOffsetCtl, pageno)
     IN  /\ MultiXactOffsetCtl' =
              IF rd.ok
              THEN StoreOffsetEntry(rd.ctl, rd.slotno, entryno, Me(k).offset)
              ELSE rd.ctl
         /\ pc' = IF rd.ok THEN pc ELSE "ioerror"
  /\ writers' = [writers EXCEPT
                   !.w[k].pc = IF Len(Me(k).members) = 0 THEN "done" ELSE "member",
                   !.w[k].i = 1, !.w[k].prev_pageno = -1]
  /\ UNCHANGED <<MultiXactMemberCtl, MultiXactState>>
  /\ WriterFrame

\* the loop body for member i up to flagsval = *flagsptr
LoadFlags(k) ==
  /\ pc = "running"
  /\ Me(k).pc = "member"
  /\ LET me     == Me(k)
         offset == AddInt32(me.offset, me.i - 1)
         pageno == MXOffsetToMemberPage(offset)
         bad    == USE_ASSERT_CHECKING
                   /\ me.members[me.i].status > MultiXactStatusUpdate
         rd == IF pageno # me.prev_pageno
               THEN SimpleLruReadPage(MultiXactMemberCtl, pageno)
               ELSE [ctl |-> MultiXactMemberCtl, slotno |-> me.slotno, ok |-> TRUE]
         c1 == SlotPoke(rd.ctl, rd.slotno, MXOffsetToMemberOffset(offset),
                        me.members[me.i].xid)
     IN  /\ pc' = IF bad THEN "abort" ELSE IF rd.ok THEN pc ELSE "ioerror"
         /\ MultiXactMemberCtl' =
              IF bad THEN MultiXactMemberCtl ELSE IF rd.ok THEN c1 ELSE rd.ctl
         /\ writers' = [writers EXCEPT
                          !.w[k].pc = "store",
                          !.w[k].prev_pageno = pageno,
                          !.w[k].slotno = rd.slotno,
                          !.w[k].flagsval =
                            SlotPeek(c1, rd.slotno, MXOffsetToFlagsOffset(offset))]
  /\ UNCHANGED <<MultiXactOffsetCtl, MultiXactState>>
  /\ WriterFrame

\* the rest of the loop body: *flagsptr = flagsval, page_dirty
StoreFlags(k) ==
  /\ pc = "running"
  /\ Me(k).pc = "store"
  /\ LET me     == Me(k)
         offset == AddInt32(me.offset, me.i - 1)
         fv == SetStatusBits(me.flagsval, me.members[me.i].status,
                             MXOffsetToFlagsBitShift(offset))
     IN  MultiXactMemberCtl' =
           SlotDirty(SlotPoke(MultiXactMemberCtl, me.slotno,
                              MXOffsetToFlagsOffset(offset), fv), me.slotno)
  /\ writers' = [writers EXCEPT
                   !.w[k].pc = IF Me(k).i = Len(Me(k).members)
                               THEN "done" ELSE "member",
                   !.w[k].i = @ + 1]
  /\ UNCHANGED <<MultiXactOffsetCtl, MultiXactState, pc>>
  /\ WriterFrame

NextWriters ==
  \E k \in Writers :
    \/ AcquireGenLock(k)
    \/ ReadCounters(k)
    \/ AdvanceCounters(k)
    \/ WriteOffsetEntry(k)
    \/ LoadFlags(k)
    \/ StoreFlags(k)

SpecWriters == InitWriters /\ [][NextWriters]_vars

\* caller k has been handed a group id and a run of member offsets
Allocated(k) == Me(k).pc \notin {"idle", "locked"}

\* C12: no two callers are handed the same group id, nor runs of member
\* offsets that overlap; and while a caller is between taking the lock and
\* advancing the counters no other caller is.
C12_AllocationsDisjoint ==
  \A j, k \in Writers :
    j # k =>
      /\ ~(Me(j).pc \in {"locked", "read"} /\ Me(k).pc \in {"locked", "read"})
      /\ (Allocated(j) /\ Allocated(k))
         => /\ Me(j).multi # Me(k).multi
            /\ \/ ToInt(Me(j).offset) + Len(Me(j).members) <= ToInt(Me(k).offset)
               \/ ToInt(Me(k).offset) + Len(Me(k).members) <= ToInt(Me(j).offset)

\* both callers have been handed their ids and runs, and one took the lock
\* while the other had its group made only in part
C12_Witness ==
  /\ \A k \in Writers : Me(k).pc = "done" /\ Len(Me(k).members) = 2
  /\ Me(1).multi = AddInt32(Me(2).multi, 1)
  /\ Me(1).offset = AddInt32(Me(2).offset, 2)

\* C13: when the concurrent RecordNewMultiXact calls have all returned,
\* every member of every group is found in its slot with its own xid and
\* status.
C13_NoLostUpdate ==
  (pc = "running" /\ \A k \in Writers : Me(k).pc = "done")
  => \A k \in Writers :
       \A n \in 1..Len(Me(k).members) :
         ReadMember(MultiXactMemberCtl, AddInt32(Me(k).offset, n - 1))
           = Me(k).members[n]

\* the run of rec.moff .. rec.moff + nmembers - 1 passes the last offset:
\* the offsets of these members have wrapped to the start
WrappedMembers(rec) ==
  {n \in 1..Len(rec.members) : Lt32(AddInt32(rec.moff, n - 1), rec.moff)}

\* C14: a step that handles a group whose members do not fit before the last
\* member offset stores no member at an offset that has wrapped: those
\* slots read as they did before.
C14_NoWrappedMember ==
  [][(/\ Len(replayed') > Len(replayed)
      /\ replayed'[Len(replayed')].info = "CREATE_ID")
     => LET rec == replayed'[Len(replayed')]
        IN  \A n \in WrappedMembers(rec) :
              ReadMember(MultiXactMemberCtl', AddInt32(rec.moff, n - 1))
                = ReadMember(MultiXactMemberCtl, AddInt32(rec.moff, n - 1))]_vars

\* ------------------------------------------- records with an invalid status
\* CREATE_ID records with a member whose status is above
\* MultiXactStatusUpdate: the next value, and a value that does not fit the
\* 8 bits of a status field (MultiXactStatus is an enum, as wide as an int)
BadStatusRecs ==
  { CreateRec(U32(200), U32(2), U32(1),
              <<Member(U32(7), MultiXactStatusUpdate + 1), Member(U32(100), 1)>>),
    CreateRec(U32(200), U32(2), U32(1),
              <<Member(U32(100), 1), Member(U32(7), 256 + MultiXactStatusUpdate)>>) }

RedoBadStatus == \E r \in BadStatusRecs : Redo(r)

NextBadStatus == Next \/ RedoBadStatus

SpecBadStatus == Init /\ [][NextBadStatus]_vars

\* the status field of the member slot at offset, as a reader finds it
StatusAt(ctl, offset) == ReadMember(ctl, offset).status

InvalidMembers(rec) ==
  {n \in 1..Len(rec.members) : rec.members[n].status > MultiXactStatusUpdate}

\* member offsets of the flags words the record's run reaches
SameWords(rec) ==
  {AddInt32(rec.moff, d) :
     d \in (0 - MULTIXACT_MEMBERS_PER_MEMBERGROUP) ..
           (Len(rec.members) + MULTIXACT_MEMBERS_PER_MEMBERGROUP)}

\* C15: the replay of a CREATE_ID record with a member whose status is above
\* MultiXactStatusUpdate ends the process, the status field of that member's
\* slot is as before, and so is the status field of every slot that is not
\* a slot of the record's members.
C15_InvalidStatusNotStored ==
  [][(/\ Len(replayed') > Len(replayed)
      /\ replayed'[Len(replayed')].info = "CREATE_ID"
      /\ InvalidMembers(replayed'[Len(replayed')]) # {})
     => LET rec  == replayed'[Len(replayed')]
            mine == {AddInt32(rec.moff, n - 1) : n \in 1..Len(rec.members)}
        IN  /\ pc' # "running"
            /\ \A n \in InvalidMembers(rec) :
                 StatusAt(MultiXactMemberCtl', AddInt32(rec.moff, n - 1))
                   = StatusAt(MultiXactMemberCtl, AddInt32(rec.moff, n - 1))
            /\ \A o \in SameWords(rec) \ mine :
                 StatusAt(MultiXactMemberCtl', o) = StatusAt(MultiXactMemberCtl, o)]_vars

\* ---------------------------------------------- calls of single functions
\* One call of a function of the file with arguments a and b; calc.out is
\* the sequence of what the call returned.
MaxDelta == 1

\* 32-bit values at and around the places where the functions change
\* behaviour: 0 and 2^32 - 1, FirstNormalTransactionId, the first entry of
\* offsets page 1, the first offset of member page 1, and the quarters of
\* the circle
Anchors ==
  { Zero32, U32(FirstNormalTransactionId), U32(MULTIXACT_OFFSETS_PER_PAGE),
    U32(MULTIXACT_MEMBERS_PER_PAGE),
    <<Half \div 4, 0>>, <<Half \div 2, 0>>, <<3 * (Half \div 4), 0>> }

Samples ==
  UNION {{x, AddInt32(x, d), Sub32(x, U32(d))} : x \in Anchors, d \in 0..MaxDelta}

InitCalls ==
  /\ MultiXactOffsetCtl = SimpleLruInit(NumOffsetSlots, BaseDirs.off)
  /\ MultiXactMemberCtl = SimpleLruInit(NumMemberSlots, BaseDirs.mem)
  /\ MultiXactState = [nextMXact |-> U32(1), nextOffset |-> U32(1)]
  /\ ShmemVariableCache_nextXid = Zero32
  /\ pc = "running"
  /\ USE_ASSERT_CHECKING = FALSE
  /\ NullAccessTraps = FALSE
  /\ wal = <<>>
  /\ replayed = <<>>
  /\ phase = "normal"
  /\ created = <<>>
  /\ writers = NoWriters
  /\ \E a \in Samples, b \in Samples :
       calc = [fn |-> "none", a |-> a, b |-> b, out |-> <<>>]
  /\ mvdist = NoMvdist

\* the call leaves everything but calc alone
Call(fn, out) ==
  /\ calc # NoCalc
  /\ calc.fn = "none"
  /\ calc' = [calc EXCEPT !.fn = fn, !.out = out]
  /\ UNCHANGED <<MultiXactOffsetCtl, MultiXactMemberCtl, MultiXactState,
                 ShmemVariableCache_nextXid, pc, USE_ASSERT_CHECKING,
                 NullAccessTraps, wal, replayed, phase, created, writers,
                 mvdist>>

CallMultiXactIdPrecedes ==
  Call("MultiXactIdPrecedes", <<MultiXactIdPrecedes(calc.a, calc.b)>>)

CallMultiXactOffsetPrecedes ==
  Call("MultiXactOffsetPrecedes", <<MultiXactOffsetPrecedes(calc.a, calc.b)>>)

\* page and entry of both arguments
CallMultiXactIdToOffset ==
  Call("MultiXactIdToOffset",
       <<MultiXactIdToOffsetPage(calc.a), MultiXactIdToOffsetEntry(calc.a),
         MultiXactIdToOffsetPage(calc.b), MultiXactIdToOffsetEntry(calc.b)>>)

\* The threshold query: the member offsets in use, from the oldest one still
\* referenced up to the next one to hand out, against the two thresholds.
isApproachingWraparound(currentOldestInUse, nextOffset) ==
  LET members == Sub32(nextOffset, currentOldestInUse)
  IN  IF Lt32(MULTIXACT_MEMBER_DANGER_THRESHOLD, members) THEN "MustBlock"
      ELSE IF Lt32(MULTIXACT_MEMBER_SAFE_THRESHOLD, members) THEN "ShouldSchedule"
      ELSE "Safe"

\* calc.a is the oldest offset in use, calc.b the next member offset
CallisApproachingWraparound ==
  Call("isApproachingWraparound", <<isApproachingWraparound(calc.a, calc.b)>>)

CallTransactionIdPrecedes ==
  Call("TransactionIdPrecedes", <<TransactionIdPrecedes(calc.a, calc.b)>>)

CallTransactionIdFollowsOrEquals ==
  Call("TransactionIdFollowsOrEquals", <<TransactionIdFollowsOrEquals(calc.a, calc.b)>>)

\* The member pages the loop of RecordNewMultiXact resolves from iteration
\* i on, each with whether SimpleLruReadPage is called for it
\* (pageno != prev_pageno).
RECURSIVE MemberPageVisits(_, _, _, _)
MemberPageVisits(offset, nmembers, i, prev_pageno) ==
  IF i >= nmembers THEN <<>>
  ELSE LET pageno == MXOffsetToMemberPage(offset)
       IN  <<[pageno |-> pageno, read |-> pageno # prev_pageno]>>
           \o MemberPageVisits(AddInt32(offset, 1), nmembers, i + 1, pageno)

\* the loop run for MaxMembers members from offset calc.a
CallRecordNewMultiXactLoop ==
  Call("RecordNewMultiXactLoop", MemberPageVisits(calc.a, MaxMembers, 0, -1))

\* where the member at an offset lives: page, byte offset of the flags word,
\* bit shift of the status field, byte offset of the transaction id
MemberLayout(xid) ==
  [pageno |-> MXOffsetToMemberPage(xid),
   flagsoff |-> MXOffsetToFlagsOffset(xid),
   bshift |-> MXOffsetToFlagsBitShift(xid),
   memberoff |-> MXOffsetToMemberOffset(xid)]

CallMXOffsetToMember ==
  Call("MXOffsetToMember", <<MemberLayout(calc.a), MemberLayout(calc.b)>>)

\* the three comparisons in both directions
CallPrecedesBothWays ==
  Call("PrecedesBothWays",
       <<[ab |-> MultiXactIdPrecedes(calc.a, calc.b),
          ba |-> MultiXactIdPrecedes(calc.b, calc.a)],
         [ab |-> MultiXactIdPrecedesOrEquals(calc.a, calc.b),
          ba |-> MultiXactIdPrecedesOrEquals(calc.b, calc.a)],
         [ab |-> MultiXactOffsetPrecedes(calc.a, calc.b),
          ba |-> MultiXactOffsetPrecedes(calc.b, calc.a)]>>)

NextCalls ==
  \/ CallMultiXactIdPrecedes
  \/ CallMultiXactOffsetPrecedes
  \/ CallMultiXactIdToOffset
  \/ CallisApproachingWraparound
  \/ CallTransactionIdPrecedes
  \/ CallTransactionIdFollowsOrEquals
  \/ CallRecordNewMultiXactLoop
  \/ CallMXOffsetToMember
  \/ CallPrecedesBothWays

SpecCalls == InitCalls /\ [][NextCalls]_vars

Called(fn) == calc # NoCalc /\ calc.fn = fn

\* C16: MultiXactIdPrecedes(a, b) is what it is for a + 1 and b + 1 (mod
\* 2^32) and is false for b = a; the same for MultiXactOffsetPrecedes.
C16_ShiftInvariant ==
  /\ Called("MultiXactIdPrecedes")
     => /\ calc.out[1] = MultiXactIdPrecedes(AddInt32(calc.a, 1), AddInt32(calc.b, 1))
        /\ calc.a = calc.b => ~calc.out[1]
  /\ Called("MultiXactOffsetPrecedes")
     => /\ calc.out[1] = MultiXactOffsetPrecedes(AddInt32(calc.a, 1), AddInt32(calc.b, 1))
        /\ calc.a = calc.b => ~calc.out[1]

\* a = 2^32 - 1 and b = 0: the shifted pair is 0 and 1, across the wrap
C16_Witness ==
  /\ Called("MultiXactOffsetPrecedes")
  /\ calc.a = MaxU32
  /\ calc.b = Zero32
  /\ calc.out = <<TRUE>>

\* page * per_page + entry in 32 bits, per_page a power of two
Recompose(page, entry) ==
  Add32(Shl32(U32(page), 11), U32(entry))

\* C17: MultiXactIdToOffsetPage(id) * MULTIXACT_OFFSETS_PER_PAGE +
\* MultiXactIdToOffsetEntry(id) = id with 0 <= entry < entries per page, so
\* two different ids do not have the same page and entry.
C17_PageEntryOfId ==
  Called("MultiXactIdToOffset")
  => /\ 2^11 = MULTIXACT_OFFSETS_PER_PAGE
     /\ Recompose(calc.out[1], calc.out[2]) = calc.a
     /\ Recompose(calc.out[3], calc.out[4]) = calc.b
     /\ calc.out[2] \in 0..(MULTIXACT_OFFSETS_PER_PAGE - 1)
     /\ calc.out[4] \in 0..(MULTIXACT_OFFSETS_PER_PAGE - 1)
     /\ calc.a # calc.b => <<calc.out[1], calc.out[2]>> # <<calc.out[3], calc.out[4]>>

\* the last id, on the last offsets page, and the first id of page 1
C17_Witness ==
  /\ Called("MultiXactIdToOffset")
  /\ calc.a = MaxU32
  /\ calc.b = U32(MULTIXACT_OFFSETS_PER_PAGE)
  /\ calc.out = <<2097151, 2047, 1, 0>>

\* M minus the circular distance from the oldest offset in use to the next one
RemainingToWraparound(oldest, nextOffset) ==
  Sub32(MaxU32, Sub32(nextOffset, oldest))

\* C18: with M = 2^32 - 1 the thresholds are M/2 and M - M/4, and the query
\* answers Safe when the remaining distance to wraparound is above M/2,
\* MustBlock when it is below M/4 and ShouldSchedule in between.
C18_Thresholds ==
  Called("isApproachingWraparound")
  => LET remaining == RemainingToWraparound(calc.a, calc.b)
         halfM == <<Half \div 2 - 1, Half - 1>>
         quarterM == <<Half \div 4 - 1, Half - 1>>
     IN  /\ MULTIXACT_MEMBER_SAFE_THRESHOLD = halfM
         /\ MULTIXACT_MEMBER_DANGER_THRESHOLD = <<3 * (Half \div 4), 0>>
         /\ calc.out[1] = IF Lt32(halfM, remaining) THEN "Safe"
                          ELSE IF Lt32(remaining, quarterM) THEN "MustBlock"
                          ELSE "ShouldSchedule"

\* three quarters of the space in use and one offset more: the remaining
\* distance has just fallen below a quarter
C18_Witness ==
  /\ Called("isApproachingWraparound")
  /\ calc.a = Zero32
  /\ calc.b = <<3 * (Half \div 4), 1>>
  /\ calc.out = <<"MustBlock">>

\* (int32)(a - b) < 0
SignedDiffNegative(a, b) == Sub32(a, b)[1] >= Half \div 2

\* C19 as stated: for all ids, the reserved ones included,
\* TransactionIdPrecedes(a, b) is (int32)(a - b) < 0 and
\* TransactionIdFollowsOrEquals(a, b) is (int32)(a - b) >= 0.
C19_CircularForAllIds ==
  /\ Called("TransactionIdPrecedes") => calc.out[1] = SignedDiffNegative(calc.a, calc.b)
  /\ Called("TransactionIdFollowsOrEquals") => calc.out[1] = ~SignedDiffNegative(calc.a, calc.b)

\* C19: for two ids at or above the first normal id, TransactionIdPrecedes(a, b)
\* is (int32)(a - b) < 0 and TransactionIdFollowsOrEquals(a, b) is
\* (int32)(a - b) >= 0; when either id is a reserved one the two functions are
\* the plain unsigned a < b and a >= b.
C19_CircularForNormalIds ==
  LET reserved == \/ Lt32(calc.a, U32(FirstNormalTransactionId))
                  \/ Lt32(calc.b, U32(FirstNormalTransactionId))
      expected == IF reserved THEN Lt32(calc.a, calc.b)
                  ELSE SignedDiffNegative(calc.a, calc.b)
  IN  /\ Called("TransactionIdPrecedes") => calc.out[1] = expected
      /\ Called("TransactionIdFollowsOrEquals") => calc.out[1] = ~expected

\* a reserved id against a normal id more than 2^31 above it: it precedes,
\* where the circular comparison says it follows
C19_Witness ==
  /\ Called("TransactionIdPrecedes")
  /\ calc.a = U32(1)
  /\ calc.b = <<3 * (Half \div 4), 0>>
  /\ calc.out = <<TRUE>>
  /\ ~SignedDiffNegative(calc.a, calc.b)

\* how many records of the kind for the page the log holds
ZeroRecords(log, info, pageno) ==
  Cardinality({i \in DOMAIN log : log[i].info = info /\ log[i].pageno = pageno})

\* the records a step has appended
Appended == SubSeq(wal', Len(wal) + 1, Len(wal'))

\* the pages the step has zeroed in the write path: not there before
NewPages(old, new) == PagesOf(new) \ PagesOf(old)

\* C20: zeroing a page with writeXlog true appends exactly one page-zeroed
\* record of the store's kind with that page number, and with writeXlog false
\* none; replay zeroes with false, so a replay step leaves the log as it was.
C20_ZeroPageLogged ==
  [][/\ (phase = "recovery" /\ replayed' # replayed) => wal' = wal
     /\ (phase = "normal" /\ created' # created)
        => /\ Len(wal') > Len(wal)
           /\ SubSeq(wal', 1, Len(wal)) = wal
           /\ \A p \in NewPages(MultiXactOffsetCtl, MultiXactOffsetCtl') :
                ZeroRecords(Appended, "ZERO_OFF_PAGE", p) = 1
           /\ \A p \in NewPages(MultiXactMemberCtl, MultiXactMemberCtl') :
                ZeroRecords(Appended, "ZERO_MEM_PAGE", p) = 1
           /\ \A i \in DOMAIN Appended :
                /\ Appended[i].info = "ZERO_OFF_PAGE"
                   => Appended[i].pageno \in NewPages(MultiXactOffsetCtl, MultiXactOffsetCtl')
                /\ Appended[i].info = "ZERO_MEM_PAGE"
                   => Appended[i].pageno \in NewPages(MultiXactMemberCtl, MultiXactMemberCtl')
    ]_vars

\* a page-zeroed record of each kind written once by the write path and both
\* replayed: the pages are zeroed again and the log still has one of each
C20_Witness ==
  /\ phase = "recovery"
  /\ \E i \in DOMAIN replayed, j \in DOMAIN replayed :
       /\ replayed[i].info = "ZERO_OFF_PAGE"
       /\ replayed[j].info = "ZERO_MEM_PAGE"
       /\ ZeroRecords(wal, "ZERO_OFF_PAGE", replayed[i].pageno) = 1
       /\ ZeroRecords(wal, "ZERO_MEM_PAGE", replayed[j].pageno) = 1
       /\ replayed[i].pageno \in PagesOf(MultiXactOffsetCtl)
       /\ replayed[j].pageno \in PagesOf(MultiXactMemberCtl)

\* ---------------------------------------------- frame of RecordNewMultiXact
\* the member offsets offset, offset + 1, ... of a record's members
MemberOffsetsOf(rec) ==
  {AddInt32(rec.moff, n - 1) : n \in 1..Len(rec.members)}

\* the 16-bit halves of the bits of a flags word taken by the status fields
\* at the given shifts
FieldMask(shifts) ==
  << (IF 16 \in shifts THEN 255 ELSE 0) + (IF 24 \in shifts THEN 65280 ELSE 0),
     (IF 0 \in shifts THEN 255 ELSE 0) + (IF 8 \in shifts THEN 65280 ELSE 0) >>

\* the bits of the flags word at byte offset o of member page p that are
\* status fields of the given member offsets
OwnStatusBits(offsets, p, o) ==
  FieldMask({MXOffsetToFlagsBitShift(x) :
               x \in {y \in offsets : /\ MXOffsetToMemberPage(y) = p
                                      /\ MXOffsetToFlagsOffset(y) = o}})

\* the words of page p in either of two states of an area
WordsOf(old, new, p) ==
  DOMAIN PageContent(old, p) \cup DOMAIN PageContent(new, p)

\* the step was a call of RecordNewMultiXact for a CREATE_ID record
RecordedNow ==
  /\ Len(replayed') > Len(replayed)
  /\ replayed'[Len(replayed')].info = "CREATE_ID"

\* C21: RecordNewMultiXact(multi, offset, members) changes only the offset
\* entry of multi and the transaction-id slots and 8-bit status fields of
\* the member offsets offset .. offset + nmembers - 1: every other offset
\* entry, every other transaction-id slot and the other bits of the flags
\* words are as before; with no members the members area is untouched.
C21_OnlyOwnFields ==
  [][RecordedNow
     => LET rec  == replayed'[Len(replayed')]
            mine == MemberOffsetsOf(rec)
        IN  /\ \A p \in PagesOf(MultiXactOffsetCtl) \cup PagesOf(MultiXactOffsetCtl') :
                 \A o \in WordsOf(MultiXactOffsetCtl, MultiXactOffsetCtl', p) :
                   \/ /\ p = MultiXactIdToOffsetPage(rec.mid)
                      /\ o = MultiXactIdToOffsetEntry(rec.mid) * SizeofMultiXactOffset
                   \/ PeekWord(PageContent(MultiXactOffsetCtl', p), o)
                        = PeekWord(PageContent(MultiXactOffsetCtl, p), o)
            /\ \A p \in PagesOf(MultiXactMemberCtl) \cup PagesOf(MultiXactMemberCtl') :
                 \A o \in WordsOf(MultiXactMemberCtl, MultiXactMemberCtl', p) :
                   LET keep == Not32(OwnStatusBits(mine, p, o))
                   IN  \/ \E x \in mine : /\ MXOffsetToMemberPage(x) = p
                                          /\ MXOffsetToMemberOffset(x) = o
                       \/ And32(PeekWord(PageContent(MultiXactMemberCtl', p), o), keep)
                            = And32(PeekWord(PageContent(MultiXactMemberCtl, p), o), keep)
            /\ Len(rec.members) = 0 => MultiXactMemberCtl' = MultiXactMemberCtl]_vars

\* ------------------------------------- order inside one RecordNewMultiXact
\* the offsets entry of caller k's group holds the caller's first member
\* offset and its page is marked dirty
OffsetEntryWritten(k) ==
  /\ ReadOffsetEntry(MultiXactOffsetCtl, Me(k).multi) = Me(k).offset
  /\ \E slot \in ResidentSlots(MultiXactOffsetCtl,
                               MultiXactIdToOffsetPage(Me(k).multi)) :
       MultiXactOffsetCtl.page_dirty[slot]

\* C22: every step of a caller that reads or writes a member page, and so
\* every change of the members area, is taken when the offsets entry of that
\* caller's group already holds the first member offset, on a dirty page.
C22_OffsetEntryFirst ==
  [][/\ \A k \in Writers :
          (Me(k).pc \in {"member", "store"} /\ writers'.w[k] # writers.w[k])
          => OffsetEntryWritten(k)
     /\ MultiXactMemberCtl' # MultiXactMemberCtl
        => \E k \in Writers : /\ writers'.w[k] # writers.w[k]
                              /\ Me(k).pc \in {"member", "store"}
                              /\ OffsetEntryWritten(k)]_vars

\* a caller has stored its first member's xid and not yet the status, the
\* offsets entry being written; the other caller has written nothing yet
C22_Witness ==
  /\ Me(1).pc = "store" /\ Me(1).i = 1
  /\ OffsetEntryWritten(1)
  /\ ReadMember(MultiXactMemberCtl, Me(1).offset).xid = Me(1).members[1].xid
  /\ Me(2).pc = "offsets"
  /\ ReadOffsetEntry(MultiXactOffsetCtl, Me(2).multi) = Zero32

\* ------------------------------------------ member pages of one group's run
\* C23: the member pages the loop of RecordNewMultiXact resolves are in
\* non-decreasing order, and SimpleLruReadPage is called for a page exactly
\* when it differs from the page of the iteration before, once for each
\* distinct page.
C23_PagesAscendReadOnce ==
  Called("RecordNewMultiXactLoop")
  => LET v == calc.out
     IN  /\ \A i \in 1..(Len(v) - 1) : v[i].pageno <= v[i + 1].pageno
         /\ \A i \in 1..Len(v) :
              v[i].read = (i = 1 \/ v[i].pageno # v[i - 1].pageno)
         /\ Cardinality({i \in 1..Len(v) : v[i].read})
              = Cardinality({v[i].pageno : i \in 1..Len(v)})

\* ------------------------------------------------- layout of a member page
\* two byte ranges of 4 bytes starting at x and y have no byte in common
Apart4(x, y) == x + 4 <= y \/ y + 4 <= x

\* C24: on a member page of 8192 bytes, the flags word of an offset is at
\* ((off / 4) % 409) * 20 and its status field at bit (off % 4) * 8; flags
\* word and transaction-id slot lie inside the page; and for two different
\* offsets of one page the transaction-id slots are disjoint, the status
\* fields are disjoint, and no transaction-id slot overlaps a flags word.
C24_LayoutInjective ==
  Called("MXOffsetToMember")
  => LET la == calc.out[1]
         lb == calc.out[2]
     IN  /\ \A pr \in {<<calc.a, la>>, <<calc.b, lb>>} :
              LET off == pr[1]
                  l == pr[2]
              IN  /\ l.flagsoff = Mod32(Div32(off, 4), 409) * 20
                  /\ l.bshift = Mod32(off, 4) * 8
                  /\ 0 <= l.flagsoff /\ l.flagsoff + 4 <= 8192
                  /\ 0 <= l.memberoff /\ l.memberoff + 4 <= 8192
                  /\ 0 <= l.bshift /\ l.bshift + 8 <= 32
                  /\ l.bshift % 8 = 0
         /\ \A x \in {la, lb}, y \in {la, lb} :
              x.pageno = y.pageno => Apart4(x.memberoff, y.flagsoff)
         /\ (calc.a # calc.b /\ la.pageno = lb.pageno)
            => /\ Apart4(la.memberoff, lb.memberoff)
               /\ la.flagsoff # lb.flagsoff \/ la.bshift # lb.bshift

\* the last member of group 0 and the first member of group 1 of page 0:
\* the id slot of one ends where the flags word of the other starts
C24_Witness ==
  /\ Called("MXOffsetToMember")
  /\ calc.a = U32(3)
  /\ calc.b = U32(4)
  /\ calc.out = <<[pageno |-> 0, flagsoff |-> 0, bshift |-> 24, memberoff |-> 16],
                  [pageno |-> 0, flagsoff |-> 20, bshift |-> 0, memberoff |-> 24]>>

\* -------------------------------------------- frame of the zero-page redo
\* every page but pageno reads the same in both states of an area, and the
\* area has the pages it had, and pageno
OnlyPageChanged(old, new, pageno) ==
  /\ PagesOf(new) = PagesOf(old) \cup {pageno}
  /\ \A q \in PagesOf(new) \ {pageno} : PageContent(new, q) = PageContent(old, q)

\* C25: the replay of a ZERO_OFF_PAGE record changes page pageno of the
\* offsets area only, the replay of a ZERO_MEM_PAGE record page pageno of the
\* members area only: the other area, every other page, nextMXact,
\* nextOffset and nextXid are as before.
C25_ZeroRedoFrame ==
  [][Len(replayed') > Len(replayed)
     => LET rec == replayed'[Len(replayed')]
        IN  /\ rec.info = "ZERO_OFF_PAGE"
               => /\ OnlyPageChanged(MultiXactOffsetCtl, MultiXactOffsetCtl', rec.pageno)
                  /\ UNCHANGED <<MultiXactMemberCtl, MultiXactState,
                                 ShmemVariableCache_nextXid>>
            /\ rec.info = "ZERO_MEM_PAGE"
               => /\ OnlyPageChanged(MultiXactMemberCtl, MultiXactMemberCtl', rec.pageno)
                  /\ UNCHANGED <<MultiXactOffsetCtl, MultiXactState,
                                 ShmemVariableCache_nextXid>>]_vars

\* a group recorded on offsets page 1 and with members on member page 0,
\* then page 0 of the offsets area zeroed: the only slot of the area changes
\* page, and the group is still found
C25_Witness ==
  /\ Len(replayed) = 2
  /\ replayed[1].info = "CREATE_ID"
  /\ Len(replayed[1].members) > 0
  /\ MultiXactIdToOffsetPage(replayed[1].mid) = 1
  /\ replayed[2].info = "ZERO_OFF_PAGE"
  /\ replayed[2].pageno = 0
  /\ pc = "running"
  /\ ReadOffsetEntry(MultiXactOffsetCtl, replayed[1].mid) = replayed[1].moff
  /\ ReadMember(MultiXactMemberCtl, replayed[1].moff) = replayed[1].members[1]

\* ------------------------------------------------ asymmetry of precedes
\* C26 as stated: MultiXactIdPrecedes(a, b) and MultiXactIdPrecedes(b, a) are
\* never both true, the same for MultiXactOffsetPrecedes, and
\* MultiXactIdPrecedesOrEquals(a, b) is MultiXactIdPrecedes(a, b) or a = b.
C26_PrecedesAsymmetric ==
  Called("PrecedesBothWays")
  => LET id == calc.out[1]
         ideq == calc.out[2]
         off == calc.out[3]
     IN  /\ ~(id.ab /\ id.ba)
         /\ ~(off.ab /\ off.ba)
         /\ ideq.ab = (id.ab \/ calc.a = calc.b)
         /\ ideq.ba = (id.ba \/ calc.b = calc.a)

\* a and b are half the circle apart: a - b = 2^31 = b - a
Antipodal(a, b) == Sub32(a, b) = <<Half \div 2, 0>>

\* C26: MultiXactIdPrecedes(a, b) and MultiXactIdPrecedes(b, a), and the same
\* for MultiXactOffsetPrecedes, are both true exactly when a - b = 2^31
\* (mod 2^32) and never both true otherwise; MultiXactIdPrecedesOrEquals(a, b)
\* is MultiXactIdPrecedes(a, b) or a = b for all a, b.
C26_AsymmetricUnlessAntipodal ==
  Called("PrecedesBothWays")
  => LET id == calc.out[1]
         ideq == calc.out[2]
         off == calc.out[3]
     IN  /\ (id.ab /\ id.ba) = Antipodal(calc.a, calc.b)
         /\ (off.ab /\ off.ba) = Antipodal(calc.a, calc.b)
         /\ ideq.ab = (id.ab \/ calc.a = calc.b)
         /\ ideq.ba = (id.ba \/ calc.b = calc.a)

\* 2^31 against 0: each precedes the other
C26_Witness ==
  /\ Called("PrecedesBothWays")
  /\ calc.a = <<Half \div 2, 0>>
  /\ calc.b = Zero32
  /\ calc.out[1] = [ab |-> TRUE, ba |-> TRUE]
  /\ calc.out[3] = [ab |-> TRUE, ba |-> TRUE]

\* ------------------------------------------------------ nextXid in replay
\* C27: after the replay of a CREATE_ID record, replay having started with
\* nextXid = 0, nextXid is a normal transaction id.
C27_NextXidNormal ==
  Recorded => TransactionIdIsNormal(ShmemVariableCache_nextXid)

\* the greatest xid of a record, as the replay finds it
GreatestXid(rec) == MaxXid(rec.xl_xid, rec.members, 1)

\* C28 as stated: once nextXid is a normal id, the replay of a CREATE_ID
\* record never moves it to a value that circularly precedes the previous
\* one; the record changes it only when its greatest xid follows or equals
\* it, and then to a circularly later value.
C28_NextXidNeverBack ==
  [][(RecordedNow /\ TransactionIdIsNormal(ShmemVariableCache_nextXid))
     => /\ ~TransactionIdPrecedes(ShmemVariableCache_nextXid',
                                  ShmemVariableCache_nextXid)
        /\ ShmemVariableCache_nextXid' # ShmemVariableCache_nextXid
           => /\ TransactionIdFollowsOrEquals(GreatestXid(replayed'[Len(replayed')]),
                                              ShmemVariableCache_nextXid)
              /\ TransactionIdPrecedes(ShmemVariableCache_nextXid,
                                       ShmemVariableCache_nextXid')]_vars

\* how far new is ahead of old on the circle is 2^31 or more
HalfCircleAhead(old, new) == Sub32(new, old)[1] >= Half \div 2

\* C28: once nextXid is a normal id, the replay of a CREATE_ID record changes
\* it only when the record's greatest xid g follows or equals it, and then
\* to g + 1, or to 3 when g + 1 is a reserved id.  The new value circularly
\* follows the previous one and does not precede it, unless it is 2^31 or
\* more ahead of it, which takes g being 2^31 - 1 ahead of nextXid or g being
\* 2^32 - 1; then the new value circularly precedes the previous one.
C28_NextXidForwardWithinHalf ==
  [][(RecordedNow /\ TransactionIdIsNormal(ShmemVariableCache_nextXid))
     => LET old == ShmemVariableCache_nextXid
            new == ShmemVariableCache_nextXid'
            g   == GreatestXid(replayed'[Len(replayed')])
        IN  /\ new # old
               => /\ TransactionIdFollowsOrEquals(g, old)
                  /\ new = IF Lt32(AddInt32(g, 1), U32(3)) THEN U32(3)
                           ELSE AddInt32(g, 1)
                  /\ ~HalfCircleAhead(old, new)
                     => TransactionIdPrecedes(old, new)
            /\ TransactionIdPrecedes(new, old) = HalfCircleAhead(old, new)
            /\ HalfCircleAhead(old, new)
               => \/ Sub32(g, old) = <<Half \div 2 - 1, Half - 1>>
                  \/ g = MaxU32]_vars

\* two records replayed, the second with a greater xid than the first:
\* nextXid went from 101 to 201
C28_Witness ==
  /\ Len(replayed) = 2
  /\ pc = "running"
  /\ replayed[1].info = "CREATE_ID" /\ replayed[2].info = "CREATE_ID"
  /\ GreatestXid(replayed[1]) = U32(100)
  /\ GreatestXid(replayed[2]) = U32(200)
  /\ ShmemVariableCache_nextXid = U32(201)

\* =================================================================== mvdist.c
\* The generator of k-combinations and the loop of statext_ndistinct_build
\* that fills the items.  The numbers are C ints; with at most
\* STATS_MAX_DIMENSIONS attributes no product below leaves 32 bits.
STATS_MAX_DIMENSIONS == 8

\* most attributes of a statistics object in the model
MaxAttrs == 7

\* most calls of generator_next after it has returned NULL
MaxNullCalls == 2

Min(x, y) == IF x < y THEN x ELSE y

\* the for loop of n_choose_k from d on: one entry per iteration, with r
\* after r *= n-- (product) and after r /= d (r)
RECURSIVE n_choose_k_loop(_, _, _, _)
n_choose_k_loop(n, k, d, r) ==
  IF d > k THEN <<>>
  ELSE LET product == r * n
       IN  <<[d |-> d, product |-> product, r |-> product \div d]>>
           \o n_choose_k_loop(n - 1, k, d + 1, product \div d)

n_choose_k(n, k) ==
  LET iter == n_choose_k_loop(n, Min(k, n - k), 1, 1)
  IN  IF iter = <<>> THEN 1 ELSE iter[Len(iter)].r

\* the single-attribute combinations not taken off
num_combinations_WithSingles(n) == 2 ^ n - 1

num_combinations(n) == 2 ^ n - (n + 1)

\* memcpy of tuple to array[at], the array being repalloc'ed to end there;
\* indexes from 0 as in C
StoreTuple(array, at, tuple) ==
  [j \in 1..(at + Len(tuple)) |->
     IF j > at THEN tuple[j - at] ELSE array[j]]

\* generate_combinations_recurse and its for loop from i on; both return
\* the generator state and the scratch array current
RECURSIVE generate_combinations_recurse(_, _, _, _, _)
RECURSIVE generate_combinations_for(_, _, _, _, _)
generate_combinations_for(state, n, index, i, current) ==
  IF i >= n THEN [state |-> state, current |-> current]
  ELSE LET r == generate_combinations_recurse(
                  state, n, index + 1, i + 1,
                  [current EXCEPT ![index + 1] = i])
       IN  generate_combinations_for(r.state, n, index, i + 1, r.current)

generate_combinations_recurse(state, n, index, start, current) ==
  IF index < state.k
  THEN generate_combinations_for(state, n, index, start, current)
  ELSE [state |-> [state EXCEPT
                     !.combinations =
                        StoreTuple(@, state.k * state.current, current),
                     !.current = @ + 1],
        current |-> current]

\* palloc0 of the scratch array, then the recursion from index 0, start 0
generate_combinations(state, n) ==
  generate_combinations_recurse(state, n, 0, 0, [j \in 1..state.k |-> 0]).state

\* the null pointer generator_next returns; a combination is never empty
NULL == <<>>

\* what palloc leaves in memory it has not cleared
Uninitialized == -1

\* generator_init: the state, and whether its Asserts held
generator_init(n, k) ==
  LET state == [k |-> k, current |-> 0, ncombinations |-> n_choose_k(n, k),
                combinations |-> [j \in 1..k |-> Uninitialized]]
      built == generate_combinations(state, n)
  IN  [state |-> [built EXCEPT !.current = 0],
       asserts |-> n >= k /\ k > 0 /\ built.current = built.ncombinations]

\* one combination returned again and again
generator_next_Repeats(state) ==
  IF state.current = state.ncombinations
  THEN [state |-> state, combination |-> NULL]
  ELSE [state |-> state,
        combination |-> SubSeq(state.combinations, state.k * state.current + 1,
                               state.k * state.current + state.k)]

\* generator_next: NULL, or the combination at combinations[k * current++]
generator_next(state) ==
  IF state.current = state.ncombinations
  THEN [state |-> state, combination |-> NULL]
  ELSE [state |-> [state EXCEPT !.current = @ + 1],
        combination |-> SubSeq(state.combinations, state.k * state.current + 1,
                               state.k * state.current + state.k)]

\* ------------------------------------------------- calls and the build loop
\* mvdist.numattrs is attrs->dim1; generator the CombinationGenerator in use
\* (NoGenerator: none); returned what generator_next has returned since
\* generator_init; asserts whether every Assert evaluated so far held; pc,
\* numcombs, nitems, i, k and items are statext_ndistinct_build's locals and
\* its result (pc "none": the generator is called on its own).
NoGenerator == <<>>

InitNdistinct ==
  /\ MultiXactOffsetCtl = SimpleLruInit(NumOffsetSlots, BaseDirs.off)
  /\ MultiXactMemberCtl = SimpleLruInit(NumMemberSlots, BaseDirs.mem)
  /\ MultiXactState = [nextMXact |-> U32(1), nextOffset |-> U32(1)]
  /\ ShmemVariableCache_nextXid = Zero32
  /\ pc = "running"
  /\ USE_ASSERT_CHECKING = FALSE
  /\ NullAccessTraps = FALSE
  /\ wal = <<>>
  /\ replayed = <<>>
  /\ phase = "normal"
  /\ created = <<>>
  /\ writers = NoWriters
  /\ calc = NoCalc
  /\ \E n \in 1..MaxAttrs :
       mvdist = [numattrs |-> n, generator |-> NoGenerator, returned |-> <<>>,
                 asserts |-> TRUE, pc |-> "none", numcombs |-> 0, nitems |-> 0,
                 i |-> 0, k |-> 0, items |-> <<>>]

\* a step of mvdist.c leaves the rest alone
NdistinctFrame ==
  UNCHANGED <<MultiXactOffsetCtl, MultiXactMemberCtl, MultiXactState,
              ShmemVariableCache_nextXid, pc, USE_ASSERT_CHECKING,
              NullAccessTraps, wal, replayed, phase, created, writers, calc>>

\* generator_init(attrs, k) called on its own
GeneratorInit ==
  /\ mvdist # NoMvdist
  /\ mvdist.pc = "none"
  /\ mvdist.generator = NoGenerator
  /\ \E k \in 1..mvdist.numattrs :
       LET g == generator_init(mvdist.numattrs, k)
       IN  mvdist' = [mvdist EXCEPT !.generator = g.state,
                                    !.asserts = @ /\ g.asserts]
  /\ NdistinctFrame

\* generator_next(state, attrs) called on its own
GeneratorNext ==
  /\ mvdist # NoMvdist
  /\ mvdist.pc = "none"
  /\ mvdist.generator # NoGenerator
  /\ Len(mvdist.returned) < mvdist.generator.ncombinations + MaxNullCalls
  /\ LET r == generator_next(mvdist.generator)
     IN  mvdist' = [mvdist EXCEPT !.generator = r.state,
                                  !.returned = Append(@, r.combination)]
  /\ NdistinctFrame

\* statext_ndistinct_build up to the first generator_init
BuildStart ==
  /\ mvdist # NoMvdist
  /\ mvdist.pc = "none"
  /\ mvdist.generator = NoGenerator
  /\ mvdist.numattrs >= 2
  /\ LET numcombs == num_combinations(mvdist.numattrs)
         g == generator_init(mvdist.numattrs, 2)
     IN  mvdist' = [mvdist EXCEPT !.pc = "loop", !.numcombs = numcombs,
                                  !.nitems = numcombs, !.i = 0, !.k = 2,
                                  !.generator = g.state,
                                  !.asserts = @ /\ g.asserts]
  /\ NdistinctFrame

\* the body of the while loop: generator_next returned a combination, which
\* goes to items[i++]; Assert(i <= result->nitems)
BuildItem ==
  /\ mvdist # NoMvdist
  /\ mvdist.pc = "loop"
  /\ LET r == generator_next(mvdist.generator)
     IN  /\ r.combination # NULL
         /\ mvdist' = [mvdist EXCEPT
                         !.generator = r.state,
                         !.returned = Append(@, r.combination),
                         !.items = Append(@, [nattrs |-> mvdist.k,
                                              attrs |-> r.combination]),
                         !.i = @ + 1,
                         !.asserts = @ /\ mvdist.i + 1 <= mvdist.nitems]
  /\ NdistinctFrame

\* generator_next returned NULL: generator_free, k++, and either the next
\* generator_init or the end of the for loop with Assert(i == result->nitems)
BuildNextK ==
  /\ mvdist # NoMvdist
  /\ mvdist.pc = "loop"
  /\ generator_next(mvdist.generator).combination = NULL
  /\ IF mvdist.k + 1 <= mvdist.numattrs
     THEN LET g == generator_init(mvdist.numattrs, mvdist.k + 1)
          IN  mvdist' = [mvdist EXCEPT !.k = @ + 1, !.generator = g.state,
                                       !.returned = <<>>,
                                       !.asserts = @ /\ g.asserts]
     ELSE mvdist' = [mvdist EXCEPT !.k = @ + 1, !.generator = NoGenerator,
                                   !.returned = <<>>, !.pc = "done",
                                   !.asserts = @ /\ mvdist.i = mvdist.nitems]
  /\ NdistinctFrame

NextNdistinct ==
  GeneratorInit \/ GeneratorNext \/ BuildStart \/ BuildItem \/ BuildNextK

SpecNdistinct == InitNdistinct /\ [][NextNdistinct]_vars

\* --------------------------------------------------------------- C29, C30
\* the binomial coefficient by Pascal's rule
RECURSIVE Binomial(_, _)
Binomial(n, k) ==
  IF k = 0 \/ k = n THEN 1
  ELSE IF k < 0 \/ k > n THEN 0
  ELSE Binomial(n - 1, k - 1) + Binomial(n - 1, k)

\* the j-th combination the generator holds, j from 1
Combination(state, j) ==
  SubSeq(state.combinations, state.k * (j - 1) + 1, state.k * j)

\* C29: after generator_init(attrs, k) with n attributes, 1 <= k <= n, the
\* generator holds exactly n_choose_k(n, k) combinations, each a strictly
\* ascending k-tuple of indexes in 0 .. n - 1, no two the same;
\* generator_next returns them in that order, once each, and NULL on every
\* call after the last.
C29_GeneratorEnumerates ==
  (mvdist.generator # NoGenerator)
  => LET state == mvdist.generator
         n == mvdist.numattrs
     IN  /\ state.k \in 1..n
         /\ state.ncombinations = n_choose_k(n, state.k)
         /\ state.ncombinations = Binomial(n, state.k)
         /\ Len(state.combinations) = state.k * state.ncombinations
         /\ \A j \in 1..state.ncombinations :
              LET c == Combination(state, j)
              IN  /\ \A x \in 1..state.k : c[x] \in 0..(n - 1)
                  /\ \A x \in 1..(state.k - 1) : c[x] < c[x + 1]
                  /\ \A j2 \in 1..state.ncombinations :
                       j2 # j => Combination(state, j2) # c
         /\ \A j \in 1..Len(mvdist.returned) :
              mvdist.returned[j] = IF j <= state.ncombinations
                                   THEN Combination(state, j)
                                   ELSE NULL
         /\ state.current = Min(Len(mvdist.returned), state.ncombinations)

\* the six pairs of four attributes returned, and NULL twice after them
C29_Witness ==
  /\ mvdist.pc = "none"
  /\ mvdist.numattrs = 4
  /\ mvdist.generator # NoGenerator
  /\ mvdist.returned = << <<0, 1>>, <<0, 2>>, <<0, 3>>, <<1, 2>>, <<1, 3>>,
                          <<2, 3>>, NULL, NULL >>

\* combinations of k = 2 .. upto attributes out of n, by Pascal's rule
RECURSIVE CombinationsUpTo(_, _)
CombinationsUpTo(n, upto) ==
  IF upto < 2 THEN 0 ELSE Binomial(n, upto) + CombinationsUpTo(n, upto - 1)

\* C30: for n attributes, 2 <= n <= STATS_MAX_DIMENSIONS,
\* statext_ndistinct_build allocates num_combinations(n) = 2^n - n - 1 items,
\* the item index never exceeds nitems, every Assert holds, at the end of
\* the loop for k the items filled are the combinations of 2 .. k
\* attributes, nitems of them after the last k; and n_choose_k(n, k) is the
\* binomial coefficient, each division of its loop leaving no remainder.
C30_BuildFillsAllItems ==
  (mvdist # NoMvdist /\ mvdist.pc # "none")
  => LET n == mvdist.numattrs
     IN  /\ n \in 2..STATS_MAX_DIMENSIONS
         /\ mvdist.nitems = num_combinations(n)
         /\ mvdist.nitems = 2 ^ n - n - 1
         /\ mvdist.i <= mvdist.nitems
         /\ mvdist.i = Len(mvdist.items)
         /\ mvdist.asserts
         /\ mvdist.i = CombinationsUpTo(n, mvdist.k - 1) + Len(mvdist.returned)
         /\ mvdist.pc = "done"
            => /\ mvdist.i = mvdist.nitems
               /\ mvdist.k = n + 1
               /\ \A a, b \in 1..mvdist.nitems :
                    a # b => mvdist.items[a] # mvdist.items[b]
         /\ \A nn \in 2..STATS_MAX_DIMENSIONS :
              /\ num_combinations(nn) = CombinationsUpTo(nn, nn)
              /\ \A k \in 1..nn :
                   /\ n_choose_k(nn, k) = Binomial(nn, k)
                   /\ LET iter == n_choose_k_loop(nn, Min(k, nn - k), 1, 1)
                      IN  \A d \in 1..Len(iter) :
                            /\ iter[d].product % iter[d].d = 0
                            /\ iter[d].r = Binomial(nn, d)

\* the build for four attributes has ended: 6 pairs, 4 triples, 1 quadruple
C30_Witness ==
  /\ mvdist # NoMvdist
  /\ mvdist.pc = "done"
  /\ mvdist.numattrs = 4
  /\ mvdist.nitems = 11
  /\ Len(mvdist.items) = 11
  /\ mvdist.items[7] = [nattrs |-> 3, attrs |-> <<0, 1, 2>>]
  /\ mvdist.items[11] = [nattrs |-> 4, attrs |-> <<0, 1, 2, 3>>]

\* ---------------------------------------------------------------------------
\* mvdist.c: statext_ndistinct_serialize and statext_ndistinct_deserialize.
\* An MVNDistinct is copied to and from a bytea by memcpy of the structs'
\* memory images, so the model keeps the images byte by byte.

MaxItems == 2

STATS_NDISTINCT_MAGIC == <<41810, 49060>>          \* 0xA352BFA4

STATS_NDISTINCT_TYPE_BASIC == 1

\* the two data models the structs are laid out under
ABIs == {"LP64", "ILP32"}

sizeof(type, abi) ==
  CASE type = "uint32" -> 4
    [] type = "int32" -> 4
    [] type = "double" -> 8
    [] type = "AttrNumber" -> 2
    [] type = "pointer" -> IF abi = "LP64" THEN 8 ELSE 4

alignof(type, abi) ==
  IF abi = "ILP32" /\ type = "double" THEN 4 ELSE sizeof(type, abi)

TYPEALIGN(ALIGNVAL, LEN) == ((LEN + ALIGNVAL - 1) \div ALIGNVAL) * ALIGNVAL

VARHDRSZ == sizeof("int32", "LP64")

\* offsetof(MVNDistinctItem, attrs): ndistinct, nattrs, padding up to the pointer
offsetof_MVNDistinctItem_attrs(abi) ==
  TYPEALIGN(alignof("pointer", abi),
            sizeof("double", abi) + sizeof("AttrNumber", abi))

\* offsetof(MVNDistinctData, items): magic, type, nitems, padding up to the item
offsetof_MVNDistinctData_items(abi) ==
  TYPEALIGN(IF alignof("double", abi) > alignof("pointer", abi)
              THEN alignof("double", abi) ELSE alignof("pointer", abi),
            3 * sizeof("uint32", abi))

\* memory image of an AttrNumber (int16, two's complement) and of a uint32
image_int16(v) == LET u == (v + Half) % Half IN <<u % 256, u \div 256>>

value_int16(b) ==
  LET u == b[1] + 256 * b[2] IN IF u >= Half \div 2 THEN u - Half ELSE u

image_uint32(v) == <<v[2] % 256, v[2] \div 256, v[1] % 256, v[1] \div 256>>

value_uint32(b) == <<b[3] + 256 * b[4], b[1] + 256 * b[2]>>

PaddingBytes(n, byte) == [j \in 1..n |-> byte]

\* the first offsetof(MVNDistinctData, items) bytes of *ndistinct
MVNDistinctData_image(ndistinct, abi) ==
  image_uint32(ndistinct.magic) \o image_uint32(ndistinct.type)
    \o image_uint32(ndistinct.nitems)
    \o PaddingBytes(offsetof_MVNDistinctData_items(abi)
                      - 3 * sizeof("uint32", abi), ndistinct.padding)

\* the first offsetof(MVNDistinctItem, attrs) bytes of an item
MVNDistinctItem_image(item, abi) ==
  item.ndistinct \o image_int16(item.nattrs)
    \o PaddingBytes(offsetof_MVNDistinctItem_attrs(abi)
                      - sizeof("double", abi) - sizeof("AttrNumber", abi),
                    item.padding)

\* the first nattrs elements of the array item.attrs points to
AttrNumbers_image(attrs, nattrs) ==
  [b \in 1..(sizeof("AttrNumber", "LP64") * nattrs) |->
     image_int16(attrs[(b + 1) \div 2])[IF b % 2 = 1 THEN 1 ELSE 2]]

\* memcpy(dest + at, src, Len(src)); bytes that fall outside dest are dropped
memcpy(dest, at, src) ==
  [j \in 1..Len(dest) |->
     IF j > at /\ j <= at + Len(src) THEN src[j - at] ELSE dest[j]]

\* the n bytes at src + at
BytesAt(src, at, n) ==
  [j \in 1..n |-> IF at + j <= Len(src) THEN src[at + j] ELSE 0]

RECURSIVE attrs_len(_, _, _)
attrs_len(ndistinct, abi, i) ==
  IF i > ToInt(ndistinct.nitems) THEN 0
  ELSE sizeof("AttrNumber", abi) * ndistinct.items[i].nattrs
         + attrs_len(ndistinct, abi, i + 1)

len_WithoutAttrs(ndistinct, abi) ==
  VARHDRSZ + offsetof_MVNDistinctData_items(abi)
    + ToInt(ndistinct.nitems) * offsetof_MVNDistinctItem_attrs(abi)

\* Size len of statext_ndistinct_serialize
len(ndistinct, abi) ==
  VARHDRSZ + offsetof_MVNDistinctData_items(abi)
    + ToInt(ndistinct.nitems) * offsetof_MVNDistinctItem_attrs(abi)
    + attrs_len(ndistinct, abi, 1)

\* the loop storing the items; st = [output, tmp, past, asserts], tmp counted
\* from the start of output
RECURSIVE serialize_items(_, _, _, _)
serialize_items(ndistinct, abi, i, st) ==
  IF i > ToInt(ndistinct.nitems) THEN st
  ELSE LET item == ndistinct.items[i]
           head == MVNDistinctItem_image(item, abi)
           body == AttrNumbers_image(item.attrs, item.nattrs)
           tmp1 == st.tmp + Len(head)
           tmp2 == tmp1 + Len(body)
       IN serialize_items(ndistinct, abi, i + 1,
            [output |-> memcpy(memcpy(st.output, st.tmp, head), tmp1, body),
             tmp |-> tmp2,
             past |-> st.past \/ tmp2 > Len(st.output),
             asserts |-> st.asserts /\ tmp2 <= Len(st.output)])

statext_ndistinct_serialize(ndistinct, abi) ==
  LET l == len(ndistinct, abi)
      stamped == [ndistinct EXCEPT !.magic = STATS_NDISTINCT_MAGIC,
                                   !.type = U32(STATS_NDISTINCT_TYPE_BASIC)]
      header == MVNDistinctData_image(stamped, abi)
      tmp == VARHDRSZ + Len(header)
      st == serialize_items(stamped, abi, 1,
              [output |-> memcpy([j \in 1..l |-> 0], VARHDRSZ, header),
               tmp |-> tmp, past |-> tmp > l, asserts |-> TRUE])
  IN [ndistinct |-> stamped,
      output |-> [VARSIZE |-> l, mem |-> st.output],
      len |-> l, tmp |-> st.tmp, past |-> st.past, asserts |-> st.asserts]

\* the loop reading the items; st = [items, tmp, past, asserts]
RECURSIVE deserialize_items(_, _, _, _, _)
deserialize_items(data, abi, nitems, i, st) ==
  IF i > nitems THEN st
  ELSE LET head == BytesAt(data.mem, st.tmp, offsetof_MVNDistinctItem_attrs(abi))
           nattrs == value_int16(SubSeq(head, sizeof("double", abi) + 1,
                                        sizeof("double", abi)
                                          + sizeof("AttrNumber", abi)))
           tmp1 == st.tmp + offsetof_MVNDistinctItem_attrs(abi)
           count == IF nattrs > 0 THEN nattrs ELSE 0
           tmp2 == tmp1 + sizeof("AttrNumber", abi) * count
           body == BytesAt(data.mem, tmp1, sizeof("AttrNumber", abi) * count)
           item == [ndistinct |-> SubSeq(head, 1, sizeof("double", abi)),
                    nattrs |-> nattrs,
                    attrs |-> [j \in 1..count |->
                                 value_int16(SubSeq(body, 2 * j - 1, 2 * j))]]
       IN deserialize_items(data, abi, nitems, i + 1,
            [items |-> Append(st.items, item),
             tmp |-> tmp2,
             past |-> st.past \/ tmp2 > Len(data.mem),
             asserts |-> st.asserts
                         /\ nattrs >= 2 /\ nattrs <= STATS_MAX_DIMENSIONS
                         /\ tmp2 <= data.VARSIZE])

NoMVNDistinct == [magic |-> Zero32, type |-> Zero32, nitems |-> Zero32,
                  items |-> <<>>]

\* elog(ERROR, ...) leaves the function without a value
elog_ERROR(message) ==
  [status |-> "ERROR", message |-> message, ndistinct |-> NoMVNDistinct,
   tmp |-> 0, past |-> FALSE, asserts |-> TRUE]

statext_ndistinct_deserialize(data, abi) ==
  LET exhdr == data.VARSIZE - VARHDRSZ
      header == BytesAt(data.mem, VARHDRSZ, offsetof_MVNDistinctData_items(abi))
      magic == value_uint32(SubSeq(header, 1, 4))
      type == value_uint32(SubSeq(header, 5, 8))
      nitems == value_uint32(SubSeq(header, 9, 12))
      expected_size ==
        offsetof_MVNDistinctData_items(abi)
          + ToInt(nitems) * (offsetof_MVNDistinctItem_attrs(abi)
                               + sizeof("AttrNumber", abi) * 2)
      st == deserialize_items(data, abi, ToInt(nitems), 1,
              [items |-> <<>>,
               tmp |-> VARHDRSZ + offsetof_MVNDistinctData_items(abi),
               past |-> FALSE,
               asserts |-> ToInt(nitems) > 0])
  IN IF exhdr < offsetof_MVNDistinctData_items(abi)
       THEN elog_ERROR("invalid MVNDistinct size")
     ELSE IF magic # STATS_NDISTINCT_MAGIC
       THEN elog_ERROR("invalid ndistinct magic")
     ELSE IF type # U32(STATS_NDISTINCT_TYPE_BASIC)
       THEN elog_ERROR("invalid ndistinct type")
     ELSE IF exhdr < expected_size
       THEN elog_ERROR("invalid dependencies size")
     ELSE [status |-> "returned", message |-> "",
           ndistinct |-> [magic |-> magic, type |-> type, nitems |-> nitems,
                          items |-> st.items],
           tmp |-> st.tmp, past |-> st.past,
           asserts |-> st.asserts /\ st.tmp = data.VARSIZE]

\* inputs: doubles as their eight bytes (1.0 and 2.5), attribute numbers that
\* use both bytes of an int16, item widths inside and below the valid range
DoubleSamples == {<<0, 0, 0, 0, 0, 0, 240, 63>>, <<0, 0, 0, 0, 0, 0, 4, 64>>}

AttrArrays == {<<1, 2, 3, 4, 5, 6, 7, 8>>,
               <<300, 7, 258, 1, 1600, 255, 256, 2>>}

NattrsSamples == {1, 2, 3, STATS_MAX_DIMENSIONS}

PaddingSamples == {0, 255}

\* p is the byte the padding of the structs happens to hold
ItemSamples(p) ==
  {[ndistinct |-> d, nattrs |-> k, padding |-> p, attrs |-> SubSeq(a, 1, k)] :
     d \in DoubleSamples, k \in NattrsSamples, a \in AttrArrays}

MVNDistinctSamples ==
  UNION {{[magic |-> m, type |-> m, nitems |-> U32(Len(items)), padding |-> p,
           items |-> items] :
            m \in {Zero32, STATS_NDISTINCT_MAGIC},
            items \in UNION {[1..n -> ItemSamples(p)] : n \in 0..MaxItems}} :
         p \in PaddingSamples}

NoBytea == [VARSIZE |-> 0, mem |-> <<>>]

NoSerialized == [ndistinct |-> NoMVNDistinct, output |-> NoBytea, len |-> 0,
                 tmp |-> 0, past |-> FALSE, asserts |-> TRUE]

InitSerialize ==
  /\ MultiXactOffsetCtl = SimpleLruInit(NumOffsetSlots, BaseDirs.off)
  /\ MultiXactMemberCtl = SimpleLruInit(NumMemberSlots, BaseDirs.mem)
  /\ MultiXactState = [nextMXact |-> U32(1), nextOffset |-> U32(1)]
  /\ ShmemVariableCache_nextXid = Zero32
  /\ pc = "running"
  /\ USE_ASSERT_CHECKING = FALSE
  /\ NullAccessTraps = FALSE
  /\ wal = <<>>
  /\ replayed = <<>>
  /\ phase = "normal"
  /\ created = <<>>
  /\ writers = NoWriters
  /\ calc = NoCalc
  /\ \E x \in MVNDistinctSamples, abi \in ABIs :
       mvdist = [pc |-> "built", abi |-> abi, ndistinct |-> x,
                 serialized |-> NoSerialized,
                 data |-> NoBytea,
                 result |-> elog_ERROR("")]

\* statext_ndistinct_serialize(ndistinct): stamps *ndistinct and returns the bytea
SerializeCall ==
  /\ mvdist.pc = "built"
  /\ LET call == statext_ndistinct_serialize(mvdist.ndistinct, mvdist.abi)
     IN mvdist' = [mvdist EXCEPT !.pc = "serialized",
                                 !.ndistinct = call.ndistinct,
                                 !.serialized = call,
                                 !.data = call.output]
  /\ NdistinctFrame

\* statext_ndistinct_deserialize(data) on the bytea the serializer returned
DeserializeCall ==
  /\ mvdist.pc = "serialized"
  /\ mvdist' = [mvdist EXCEPT !.pc = "deserialized",
                              !.result = statext_ndistinct_deserialize(
                                           mvdist.data, mvdist.abi)]
  /\ NdistinctFrame

NextSerialize == SerializeCall \/ DeserializeCall

SpecSerialize == InitSerialize /\ [][NextSerialize]_vars

\* the value the claim is about: at least one item, every item 2..8 wide
WellFormed(ndistinct) ==
  /\ ToInt(ndistinct.nitems) > 0
  /\ \A i \in 1..Len(ndistinct.items) :
       /\ ndistinct.items[i].nattrs >= 2
       /\ ndistinct.items[i].nattrs <= STATS_MAX_DIMENSIONS

SameItem(a, b) ==
  /\ a.ndistinct = b.ndistinct
  /\ a.nattrs = b.nattrs
  /\ a.attrs = b.attrs

\* C31: for a value with nitems > 0 whose items are all 2..STATS_MAX_DIMENSIONS
\* wide, the serializer ends at or before the computed length without a write
\* past it, and deserializing its result returns a value with the same magic,
\* type and nitems and, item by item in order, the same ndistinct, nattrs and
\* attribute numbers, having read the bytea exactly to its end.
C31_SerializeRoundTrip ==
  /\ (mvdist.pc \in {"serialized", "deserialized"} /\ WellFormed(mvdist.ndistinct))
       => /\ ~mvdist.serialized.past
          /\ mvdist.serialized.tmp <= mvdist.serialized.len
          /\ mvdist.serialized.asserts
          /\ mvdist.data.VARSIZE = mvdist.serialized.len
  /\ (mvdist.pc = "deserialized" /\ WellFormed(mvdist.ndistinct))
       => /\ mvdist.result.status = "returned"
          /\ mvdist.result.ndistinct.magic = mvdist.ndistinct.magic
          /\ mvdist.result.ndistinct.type = mvdist.ndistinct.type
          /\ mvdist.result.ndistinct.nitems = mvdist.ndistinct.nitems
          /\ Len(mvdist.result.ndistinct.items) = Len(mvdist.ndistinct.items)
          /\ \A i \in 1..Len(mvdist.ndistinct.items) :
               SameItem(mvdist.result.ndistinct.items[i],
                        mvdist.ndistinct.items[i])
          /\ ~mvdist.result.past
          /\ mvdist.result.tmp = mvdist.data.VARSIZE
          /\ mvdist.result.asserts

C31_Witness ==
  /\ mvdist.pc = "deserialized"
  /\ mvdist.abi = "LP64"
  /\ mvdist.ndistinct.magic = STATS_NDISTINCT_MAGIC
  /\ ToInt(mvdist.ndistinct.nitems) = 2
  /\ mvdist.ndistinct.items[1].nattrs = STATS_MAX_DIMENSIONS
  /\ mvdist.ndistinct.items[1].attrs[5] = 1600
  /\ mvdist.ndistinct.items[2].nattrs = 3
  /\ mvdist.ndistinct.items[2].ndistinct = <<0, 0, 0, 0, 0, 0, 4, 64>>
  /\ mvdist.data.VARSIZE = 74
  /\ mvdist.result.status = "returned"
  /\ mvdist.result.tmp = 74
  /\ mvdist.result.ndistinct.items[1].attrs[5] = 1600
  /\ mvdist.result.ndistinct.items[2].attrs = <<1, 2, 3>>
====
